---- MODULE Spec2Model ----
(***************************************************************************)
(* Verification model of the scholarship matching engine:                  *)
(*   scholarship_database_loader.py   (ScholarshipDatabase)                *)
(*   research_opportunity_agent.py    (ResearchOpportunity)                *)
(*   scholarship_research_agent_dynamic.py (Scholarship,                   *)
(*                                     DynamicScholarshipAgent)            *)
(*   app.py                           (search_scholarships)                *)
(*                                                                         *)
(* Python str values are TLA+ strings; `a in b` on two str values is the   *)
(* substring test, str.lower() maps A-Z to a-z character by character,     *)
(* str.split() cuts on runs of blanks.  A dict is a function whose DOMAIN  *)
(* is the set of keys present, so dict.get(k, d) is Get(dict, k, d).       *)
(* GPAs are held in hundredths (3.5 is 350).                               *)
(***************************************************************************)
EXTENDS Integers, Sequences, FiniteSets, TLC

VARIABLES
    call,          \* the last matcher call made: inputs and returned value
    student_profile, \* DynamicScholarshipAgent.student_profile
    catalog,       \* the "scholarships" list of scholarship_database.json
    scholarships,  \* DynamicScholarshipAgent.scholarships
    today,         \* DynamicScholarshipAgent.today (a datetime, in ticks)
    user_gpa,      \* DynamicScholarshipAgent.user_gpa
    now,           \* the wall clock read by datetime.now()
    pc,            \* position inside research_scholarships
    opportunities, \* ResearchOpportunityAgent.opportunities
    file,          \* scholarship_database.json on disk
    db_data,       \* ScholarshipDatabase.data held by the updater
    changes,       \* ScholarshipUpdater.changes
    requests       \* the search invocations in progress, each with its agent

\* the state of the opportunity agent, the updater and concurrent requests
ext_vars == <<opportunities, file, db_data, changes, requests>>

vars == <<call, student_profile, catalog, scholarships, today, user_gpa, now, pc, ext_vars>>

\* no opportunity agent, no updater and no concurrent request exists
ExtIdle ==
    /\ opportunities = <<>>
    /\ file = [exists |-> FALSE]
    /\ db_data = [scholarships |-> <<>>]
    /\ changes = <<>>
    /\ requests = <<>>

(***************************************************************************)
(* Bounds of the model.                                                    *)
(***************************************************************************)
\* number of keys set in one record's requirements dict
MaxReqs == 2
\* number of profile keys that differ from the base profile
MaxOverrides == 1
\* number of entries of the JSON catalog
MaxCatalog == 2
\* ticks the wall clock may advance while research_scholarships runs
MaxElapsed == 1

(***************************************************************************)
(* Python str primitives.                                                  *)
(***************************************************************************)
UpperChars == <<"A","B","C","D","E","F","G","H","I","J","K","L","M",
                "N","O","P","Q","R","S","T","U","V","W","X","Y","Z">>
LowerChars == <<"a","b","c","d","e","f","g","h","i","j","k","l","m",
                "n","o","p","q","r","s","t","u","v","w","x","y","z">>

LowerChar(c) ==
    IF \E i \in 1..26 : UpperChars[i] = c
    THEN LowerChars[CHOOSE i \in 1..26 : UpperChars[i] = c]
    ELSE c

RECURSIVE Lower(_)
Lower(s) ==
    IF Len(s) = 0 THEN ""
    ELSE LowerChar(SubSeq(s, 1, 1)) \o Lower(SubSeq(s, 2, Len(s)))

\* t in s   (both str)
StrIn(t, s) ==
    \E i \in 1..(Len(s) - Len(t) + 1) : SubSeq(s, i, i + Len(t) - 1) = t

\* x in xs  (xs a list)
ListIn(x, xs) == \E i \in 1..Len(xs) : xs[i] = x

\* [f(x) for x in xs]
LowerAll(xs) == [i \in 1..Len(xs) |-> Lower(xs[i])]

RECURSIVE SplitFrom(_, _, _)
SplitFrom(s, i, cur) ==
    IF i > Len(s)
    THEN IF cur = "" THEN <<>> ELSE <<cur>>
    ELSE IF SubSeq(s, i, i) = " "
         THEN (IF cur = "" THEN <<>> ELSE <<cur>>) \o SplitFrom(s, i + 1, "")
         ELSE SplitFrom(s, i + 1, cur \o SubSeq(s, i, i))

\* s.split()
Split(s) == SplitFrom(s, 1, "")

\* d.get(k, dflt)
Get(d, k, dflt) == IF k \in DOMAIN d THEN d[k] ELSE dflt

(***************************************************************************)
(* ScholarshipDatabase.matches_profile: the checks in source order.  Each  *)
(* operator is TRUE when the check lets the record through.                *)
(***************************************************************************)
\* mutant: a GPA equal to the minimum is rejected
CheckGpa_strict(scholarship, profile) ==
    ~ (Get(profile, "gpa", 0) <= Get(scholarship, "gpa_min", 0))

CheckGpa(scholarship, profile) ==
    ~ (Get(profile, "gpa", 0) < Get(scholarship, "gpa_min", 0))

CheckMajor(requirements, profile) ==
    "major" \in DOMAIN requirements =>
        LET student_major == Lower(Get(profile, "major", ""))
            required_majors == LowerAll(requirements["major"])
        IN \E i \in 1..Len(required_majors) :
               StrIn(required_majors[i], student_major)

CheckHeritage(requirements, profile) ==
    "heritage" \in DOMAIN requirements =>
        LET student_heritage == Lower(Get(profile, "heritage", ""))
            required_heritages == LowerAll(requirements["heritage"])
        IN \E i \in 1..Len(required_heritages) :
               StrIn(required_heritages[i], student_heritage)

CheckUniversity(requirements, profile) ==
    "university" \in DOMAIN requirements =>
        LET student_university == Lower(Get(profile, "university", ""))
            required_universities == LowerAll(requirements["university"])
        IN \E i \in 1..Len(required_universities) :
               StrIn(required_universities[i], student_university)

CheckGender(requirements, profile) ==
    "gender" \in DOMAIN requirements =>
        LET student_gender == Lower(Get(profile, "gender", ""))
            required_genders == LowerAll(requirements["gender"])
        IN \E i \in 1..Len(required_genders) :
               StrIn(required_genders[i], student_gender)

CheckClubs(requirements, profile) ==
    "clubs" \in DOMAIN requirements =>
        LET student_clubs == Lower(Get(profile, "clubs", ""))
            required_clubs == LowerAll(requirements["clubs"])
        IN \E i \in 1..Len(required_clubs) :
               StrIn(required_clubs[i], student_clubs)

\* mutant: the residency is compared without lower-casing
CheckCitizenship_cased(requirements, profile) ==
    "citizenship" \in DOMAIN requirements =>
        LET student_residency == Get(profile, "residency", "")
        IN ~ (student_residency = "International")

CheckCitizenship(requirements, profile) ==
    "citizenship" \in DOMAIN requirements =>
        LET student_residency == Lower(Get(profile, "residency", ""))
        IN ~ (student_residency = "international")

\* mutant: the year is matched as a substring, the defect the source names
CheckYear_substring(requirements, profile) ==
    "year" \in DOMAIN requirements =>
        LET student_year == Lower(Get(profile, "year", ""))
            required_years == LowerAll(requirements["year"])
        IN \E i \in 1..Len(required_years) :
               StrIn(required_years[i], student_year)

CheckYear(requirements, profile) ==
    "year" \in DOMAIN requirements =>
        LET student_year == Lower(Get(profile, "year", ""))
            required_years == LowerAll(requirements["year"])
        IN \E i \in 1..Len(required_years) : student_year = required_years[i]

CheckState(requirements, profile) ==
    "state" \in DOMAIN requirements =>
        LET student_state == Lower(Get(profile, "state", ""))
        IN \E i \in 1..Len(requirements["state"]) :
               LET req_state == requirements["state"][i]
               IN \/ StrIn(Lower(req_state), student_state)
                  \/ StrIn(student_state, Lower(req_state))

CheckResidency(requirements, profile) ==
    "residency" \in DOMAIN requirements =>
        LET student_residency == Lower(Get(profile, "residency", ""))
            required_residency == LowerAll(requirements["residency"])
        IN \E i \in 1..Len(required_residency) :
               StrIn(required_residency[i], student_residency)

\* The check at which matches_profile returns False, "ok" when it returns True.
MatchesProfileExit(scholarship, profile) ==
    LET requirements == Get(scholarship, "requirements", <<>>)
    IN  IF ~ CheckGpa(scholarship, profile) THEN "gpa"
        ELSE IF ~ CheckMajor(requirements, profile) THEN "major"
        ELSE IF ~ CheckHeritage(requirements, profile) THEN "heritage"
        ELSE IF ~ CheckUniversity(requirements, profile) THEN "university"
        ELSE IF ~ CheckGender(requirements, profile) THEN "gender"
        ELSE IF ~ CheckClubs(requirements, profile) THEN "clubs"
        ELSE IF ~ CheckCitizenship(requirements, profile) THEN "citizenship"
        ELSE IF ~ CheckYear(requirements, profile) THEN "year"
        ELSE IF ~ CheckState(requirements, profile) THEN "state"
        ELSE IF ~ CheckResidency(requirements, profile) THEN "residency"
        ELSE "ok"

matches_profile(scholarship, profile) ==
    MatchesProfileExit(scholarship, profile) = "ok"

(***************************************************************************)
(* ResearchOpportunity.matches_profile.                                    *)
(***************************************************************************)
OppCheckGpa(opp, profile) ==
    ~ (Get(profile, "gpa", 0) < opp.gpa_min)

OppCheckYear(opp, profile) ==
    LET student_year == Get(profile, "year", "")
    IN ~ (Len(opp.eligible_years) > 0 /\ ~ ListIn(student_year, opp.eligible_years))

OppCheckMajor(opp, profile) ==
    LET student_major == Lower(Get(profile, "major", ""))
        student_discipline == Lower(Get(profile, "discipline", ""))
    IN Len(opp.majors) > 0 =>
           \E i \in 1..Len(opp.majors) :
               \/ StrIn(Lower(opp.majors[i]), student_major)
               \/ StrIn(Lower(opp.majors[i]), student_discipline)

OppMatchesProfileExit(opp, profile) ==
    IF ~ OppCheckGpa(opp, profile) THEN "gpa"
    ELSE IF ~ OppCheckYear(opp, profile) THEN "year"
    ELSE IF ~ OppCheckMajor(opp, profile) THEN "major"
    ELSE "ok"

opp_matches_profile(opp, profile) ==
    OppMatchesProfileExit(opp, profile) = "ok"

(***************************************************************************)
(* Dates.  A datetime is a number of ticks since the start of day 0 of the *)
(* proleptic Gregorian calendar (date.toordinal() days, TicksPerDay ticks  *)
(* to the day); a datetime produced by strptime or datetime(y, m, d) is a  *)
(* midnight.  NoDate is Python's None in a deadline_date.                  *)
(***************************************************************************)
\* clock resolution of the model
TicksPerDay == 2

NoDate == -1

IsLeap(y) == (y % 4 = 0) /\ ((y % 100 # 0) \/ (y % 400 = 0))

DaysInMonth(y, m) ==
    IF m = 2 THEN (IF IsLeap(y) THEN 29 ELSE 28)
    ELSE IF m \in {4, 6, 9, 11} THEN 30 ELSE 31

RECURSIVE DaysBeforeMonth(_, _)
DaysBeforeMonth(y, m) ==
    IF m = 1 THEN 0 ELSE DaysBeforeMonth(y, m - 1) + DaysInMonth(y, m - 1)

\* date(y, m, d).toordinal()
Ordinal(y, m, d) ==
    LET py == y - 1
    IN py * 365 + (py \div 4) - (py \div 100) + (py \div 400)
       + DaysBeforeMonth(y, m) + d

\* datetime(y, m, d); ValueError (here NoDate) when the date does not exist
MakeDate(y, m, d) ==
    IF y >= 1 /\ m \in 1..12 /\ d >= 1 /\ d <= DaysInMonth(y, m)
    THEN Ordinal(y, m, d) * TicksPerDay
    ELSE NoDate

\* (a - b).days for two datetimes
DaysBetween(a, b) == (a - b) \div TicksPerDay

\* d.date() of a datetime, as an ordinal
DateOf(t) == t \div TicksPerDay

(***************************************************************************)
(* DynamicScholarshipAgent.parse_deadline.                                 *)
(***************************************************************************)
MonthNames ==
    <<"January", "February", "March", "April", "May", "June", "July",
      "August", "September", "October", "November", "December">>

MonthAbbrs ==
    <<"Jan", "Feb", "Mar", "Apr", "May", "Jun", "Jul", "Aug", "Sep", "Oct",
      "Nov", "Dec">>

Digits == <<"0", "1", "2", "3", "4", "5", "6", "7", "8", "9">>

IsDigit(c) == \E i \in 1..10 : Digits[i] = c
DigitVal(c) == (CHOOSE i \in 1..10 : Digits[i] = c) - 1

IsNumber(s) ==
    Len(s) > 0 /\ \A i \in 1..Len(s) : IsDigit(SubSeq(s, i, i))

RECURSIVE ToInt(_)
ToInt(s) ==
    IF Len(s) = 0 THEN 0
    ELSE ToInt(SubSeq(s, 1, Len(s) - 1)) * 10 + DigitVal(SubSeq(s, Len(s), Len(s)))

RECURSIVE SplitOnFrom(_, _, _, _)
SplitOnFrom(s, sep, i, cur) ==
    IF i > Len(s) THEN <<cur>>
    ELSE IF SubSeq(s, i, i) = sep
         THEN <<cur>> \o SplitOnFrom(s, sep, i + 1, "")
         ELSE SplitOnFrom(s, sep, i + 1, cur \o SubSeq(s, i, i))

\* s.split(sep)
SplitOn(s, sep) == SplitOnFrom(s, sep, 1, "")

\* strptime directives: %d and %m take one or two digits, %Y four;
\* month names are matched without regard to case
IsDay(s) == IsNumber(s) /\ Len(s) <= 2 /\ ToInt(s) \in 1..31
IsMonthNumber(s) == IsNumber(s) /\ Len(s) <= 2 /\ ToInt(s) \in 1..12
IsYear(s) == IsNumber(s) /\ Len(s) = 4

MonthNamesLower == LowerAll(MonthNames)
MonthAbbrsLower == LowerAll(MonthAbbrs)

\* position of the lower-cased word in a lower-cased table, 0 when absent
IndexIn(names_lower, w_lower) ==
    IF \E i \in 1..12 : names_lower[i] = w_lower
    THEN CHOOSE i \in 1..12 : names_lower[i] = w_lower
    ELSE 0

MonthIndex(names_lower, w) == IndexIn(names_lower, Lower(w))

\* '%B %d, %Y' and '%b %d, %Y'
ParseMonthDayYear(names_lower, s) ==
    LET w == Split(s)
    IN IF /\ Len(w) = 3
          /\ MonthIndex(names_lower, w[1]) # 0
          /\ Len(w[2]) >= 2
          /\ SubSeq(w[2], Len(w[2]), Len(w[2])) = ","
          /\ IsDay(SubSeq(w[2], 1, Len(w[2]) - 1))
          /\ IsYear(w[3])
       THEN MakeDate(ToInt(w[3]), MonthIndex(names_lower, w[1]),
                     ToInt(SubSeq(w[2], 1, Len(w[2]) - 1)))
       ELSE NoDate

\* '%m/%d/%Y'
ParseSlash(s) ==
    LET w == SplitOn(s, "/")
    IN IF Len(w) = 3 /\ IsMonthNumber(w[1]) /\ IsDay(w[2]) /\ IsYear(w[3])
       THEN MakeDate(ToInt(w[3]), ToInt(w[1]), ToInt(w[2]))
       ELSE NoDate

\* '%Y-%m-%d'
ParseIso(s) ==
    LET w == SplitOn(s, "-")
    IN IF Len(w) = 3 /\ IsYear(w[1]) /\ IsMonthNumber(w[2]) /\ IsDay(w[3])
       THEN MakeDate(ToInt(w[1]), ToInt(w[2]), ToInt(w[3]))
       ELSE NoDate

\* '%B %Y' and '%b %Y'
ParseMonthYear(names_lower, s) ==
    LET w == Split(s)
    IN IF Len(w) = 2 /\ MonthIndex(names_lower, w[1]) # 0 /\ IsYear(w[2])
       THEN MakeDate(ToInt(w[2]), MonthIndex(names_lower, w[1]), 1)
       ELSE NoDate

\* the first month of month_map, in dict order, whose name occurs in s
FirstMonthIn(order, s) ==
    IF \E i \in 1..Len(order) : StrIn(MonthNames[order[i]], s)
    THEN order[CHOOSE i \in 1..Len(order) :
                   /\ StrIn(MonthNames[order[i]], s)
                   /\ \A j \in 1..(i - 1) : ~ StrIn(MonthNames[order[j]], s)]
    ELSE 0

\* the month/year fallback of parse_deadline
ParseFallback(s) ==
    IF StrIn("2026", s)
    THEN LET m == FirstMonthIn(<<1, 2, 3, 4, 5, 6, 7, 8, 9, 10, 11, 12>>, s)
         IN IF m # 0 THEN MakeDate(2026, m, 1) ELSE NoDate
    ELSE IF StrIn("2025", s)
    THEN LET m == FirstMonthIn(<<12, 11, 10>>, s)
         IN IF m # 0 THEN MakeDate(2025, m, 1) ELSE NoDate
    ELSE NoDate

\* the first of a and b that is a date, a being tried first
FirstDate(a, b) == IF a # NoDate THEN a ELSE b

parse_deadline(deadline_str) ==
    FirstDate(ParseMonthDayYear(MonthNamesLower, deadline_str),
    FirstDate(ParseMonthDayYear(MonthAbbrsLower, deadline_str),
    FirstDate(ParseSlash(deadline_str),
    FirstDate(ParseIso(deadline_str),
    FirstDate(ParseMonthYear(MonthNamesLower, deadline_str),
    FirstDate(ParseMonthYear(MonthAbbrsLower, deadline_str),
              ParseFallback(deadline_str)))))))

(***************************************************************************)
(* Scholarship (dataclass) methods.                                        *)
(***************************************************************************)
DeadlineKeywords == {"rolling", "varies", "multiple deadlines", "ongoing"}

is_expired_unguarded(s, t) == t > s.deadline_date

\* Scholarship.is_expired, with t the value datetime.now() returns
is_expired(s, t) ==
    IF s.deadline_date = NoDate THEN FALSE
    ELSE IF Lower(s.deadline) \in DeadlineKeywords THEN FALSE
    ELSE t > s.deadline_date

get_urgency_level(s) ==
    IF s.deadline_date = NoDate \/ Lower(s.deadline) \in DeadlineKeywords
    THEN "none"
    ELSE IF s.days_until_deadline <= 0 THEN "expired"
    ELSE IF s.days_until_deadline < 7 THEN "critical"
    ELSE IF s.days_until_deadline < 30 THEN "high"
    ELSE IF s.days_until_deadline < 90 THEN "medium"
    ELSE "low"

(***************************************************************************)
(* DynamicScholarshipAgent: scoring and add_scholarship.                   *)
(***************************************************************************)
CompScore(c) ==
    IF c = "Low" THEN 10
    ELSE IF c = "Medium" THEN 7
    ELSE IF c = "High" THEN 5
    ELSE IF c = "Very High" THEN 3
    ELSE 5

calculate_priority_score_capped(gpa, s) ==
    IF s.days_until_deadline >= 999 THEN 0 ELSE 100

\* avg_amount = (amount_min + amount_max) / 2 is compared through its double
calculate_priority_score(gpa, s) ==
    LET twice_avg == s.amount_min + s.amount_max
        award == IF twice_avg >= 20000 THEN 40
                 ELSE IF twice_avg >= 10000 THEN 30
                 ELSE IF twice_avg >= 4000 THEN 20
                 ELSE 10
        urgency == IF s.days_until_deadline <= 30 THEN 30
                   ELSE IF s.days_until_deadline <= 60 THEN 25
                   ELSE IF s.days_until_deadline <= 90 THEN 20
                   ELSE IF s.days_until_deadline <= 180 THEN 15
                   ELSE 10
        fit == IF gpa >= s.recommended_gpa THEN 20
               ELSE IF gpa >= s.min_gpa THEN 15
               ELSE 5
    IN award + urgency + fit + CompScore(s.competitiveness)

\* Scholarship(...) as add_scholarship constructs it, then scored.  a holds
\* the arguments (name, amount_min, amount_max, deadline, min_gpa,
\* recommended_gpa, competitiveness, category).
Scored(sch, gpa) ==
    [sch EXCEPT !.priority_score = calculate_priority_score(gpa, sch)]

Constructed(a, deadline_date, days_until, gpa) ==
    Scored([name |-> a.name, amount_min |-> a.amount_min,
            amount_max |-> a.amount_max, deadline |-> a.deadline,
            deadline_date |-> deadline_date, min_gpa |-> a.min_gpa,
            recommended_gpa |-> a.recommended_gpa,
            competitiveness |-> a.competitiveness,
            category |-> a.category,
            priority_score |-> 0,
            days_until_deadline |-> days_until], gpa)

DaysUntil_unguarded(deadline_date, t) == DaysBetween(deadline_date, t)

DaysUntil(deadline_date, t) ==
    IF deadline_date # NoDate THEN DaysBetween(deadline_date, t) ELSE 999

WithDeadlineDate(a, deadline_date, t, gpa) ==
    Constructed(a, deadline_date, DaysUntil(deadline_date, t), gpa)

\* The Scholarship that add_scholarship appends; t is self.today, gpa is
\* self.user_gpa.
NewScholarship(a, t, gpa) ==
    WithDeadlineDate(a, parse_deadline(a.deadline), t, gpa)

\* add_scholarship called once for each element of args, in order
RECURSIVE add_scholarship(_, _, _, _)
add_scholarship(list, args, t, gpa) ==
    IF Len(args) = 0 THEN list
    ELSE add_scholarship(Append(list, NewScholarship(Head(args), t, gpa)),
                         Tail(args), t, gpa)

Args(name, amount_min, amount_max, deadline, min_gpa, recommended_gpa, competitiveness, category) ==
    [name |-> name, amount_min |-> amount_min, amount_max |-> amount_max,
     deadline |-> deadline, min_gpa |-> min_gpa,
     recommended_gpa |-> recommended_gpa,
     competitiveness |-> competitiveness, category |-> category]

When(cond, args) == IF cond THEN args ELSE <<>>

(***************************************************************************)
(* The attributes __init__ extracts from student_profile.                  *)
(***************************************************************************)
SelfYear(p) == Get(p, "year", "Sophomore")
SelfHeritage(p) == Get(p, "heritage", "Not specified")
SelfGender(p) == Get(p, "gender", "Not specified")
SelfResidency(p) == Get(p, "residency", "Not specified")
SelfFirstGen(p) == Get(p, "first_gen", FALSE)
SelfMilitary(p) == Get(p, "military", FALSE)

(***************************************************************************)
(* ScholarshipDatabase.get_scholarships_for_profile and the conversion of  *)
(* its result by load_scholarships_from_database.                          *)
(***************************************************************************)
get_active_scholarships(db) ==
    LET Active(s) == Get(s, "status", "") = "active"
    IN SelectSeq(db, Active)

\* mutant: every active entry is returned, matching or not
get_scholarships_for_profile_all(db, profile) ==
    get_active_scholarships(db)

get_scholarships_for_profile(db, profile) ==
    LET Matches(s) == matches_profile(s, profile)
    IN SelectSeq(get_active_scholarships(db), Matches)

\* the add_scholarship arguments built from one catalog entry
ArgsFromDatabase(s) ==
    LET details == Get(s, "details", <<>>)
    IN Args(s.name, Get(s, "amount_min", 0), Get(s, "amount_max", 0),
            Get(s, "deadline", "Rolling"), Get(s, "gpa_min", 0),
            Get(s, "gpa_preferred", Get(s, "gpa_min", 0)),
            Get(details, "competitiveness", "Medium"),
            Get(s, "category", "General"))

\* ', '.join(v) raises TypeError when v is not iterable: a JSON true/false
JoinRaises(v) == ToString(v) \in {"TRUE", "FALSE"}

\* building the eligibility string of one catalog entry raises
EligibilityRaises(s) ==
    LET requirements == Get(s, "requirements", <<>>)
    IN \E k \in {"heritage", "major", "citizenship"} :
           /\ k \in DOMAIN requirements
           /\ JoinRaises(requirements[k])

\* the entries the conversion loop gets through: the loop sits inside the
\* method's try block, so the first exception ends it
Converted(db_scholarships) ==
    LET raising == { i \in 1..Len(db_scholarships) :
                       EligibilityRaises(db_scholarships[i]) }
        last == IF raising = {} THEN Len(db_scholarships)
                ELSE (CHOOSE i \in raising : \A j \in raising : i <= j) - 1
    IN SubSeq(db_scholarships, 1, last)

load_scholarships_from_database(list, db, profile, t, gpa) ==
    LET db_scholarships ==
            Converted(get_scholarships_for_profile(db, profile))
    IN add_scholarship(list,
                       [i \in 1..Len(db_scholarships) |->
                            ArgsFromDatabase(db_scholarships[i])],
                       t, gpa)

(***************************************************************************)
(* The static rule blocks: each operator is the sequence of add_scholarship *)
(* calls the block makes for a profile, in source order.                   *)
(***************************************************************************)
add_universal_scholarships(p) ==
    LET senior == /\ Lower(SelfResidency(p)) # "international"
                  /\ StrIn("high school senior", Lower(SelfYear(p)))
    IN When(senior,
            << Args("Coca-Cola Scholars Program", 20000, 20000,
                    "October 31, 2025", 300, 350, "Very High", "National") >>)
       \o
       When(senior,
            << Args("Dell Scholars Program", 20000, 20000,
                    "December 1, 2025", 240, 300, "High", "Corporate"),
               Args("Horatio Alger Scholarship", 7500, 25000,
                    "March 15, 2026", 200, 300, "Medium", "National"),
               Args("Elks National Foundation Most Valuable Student",
                    4000, 12500, "November 2025", 350, 370, "High",
                    "National") >>)

HeritageIsAsian(heritage_words) ==
    \E i \in 1..Len(heritage_words) :
        heritage_words[i] \in {"asian", "pacific", "chinese", "japanese",
                               "korean", "vietnamese", "filipino", "indian"}

add_diversity_scholarships(p) ==
    LET heritage_lower == Lower(SelfHeritage(p))
        heritage_words == Split(heritage_lower)
        gender_lower == Lower(SelfGender(p))
    IN When(StrIn("african", heritage_lower) \/ StrIn("black", heritage_lower),
            << Args("United Negro College Fund (UNCF) Scholarship",
                    5000, 10000, "December 2025", 300, 330, "High",
                    "Diversity") >>)
       \o
       When(\/ StrIn("hispanic", heritage_lower)
            \/ StrIn("latin", heritage_lower)
            \/ StrIn("mexican", heritage_lower),
            << Args("Hispanic Scholarship Fund", 500, 5000,
                    "February 15, 2026", 250, 300, "Medium", "Diversity") >>)
       \o
       When(HeritageIsAsian(heritage_words),
            << Args("Asian & Pacific Islander American Scholarship Fund",
                    2500, 20000, "January 15, 2026", 270, 330, "Medium",
                    "Diversity") >>)
       \o
       When(\/ StrIn("native", heritage_lower)
            \/ StrIn("indigenous", heritage_lower)
            \/ StrIn("american indian", heritage_lower),
            << Args("American Indian Science & Engineering Society (AISES)",
                    1000, 5000, "May 31, 2026", 250, 300, "Low",
                    "Diversity") >>)
       \o
       When(\/ StrIn("latvian", heritage_lower)
            \/ StrIn("latvia", heritage_lower)
            \/ StrIn("baltic", heritage_lower),
            << Args("American Latvian Association Scholarship", 1000, 3000,
                    "March 15, 2026", 250, 300, "Low", "Heritage"),
               Args("Baltic American Freedom Foundation Scholarship",
                    5000, 15000, "February 28, 2026", 300, 350, "Medium",
                    "Heritage"),
               Args("Latvian Welfare Association Scholarship", 500, 2000,
                    "April 30, 2026", 250, 300, "Low", "Heritage") >>)
       \o
       When(StrIn("female", gender_lower) \/ StrIn("woman", gender_lower),
            << Args("Women in STEM Scholarship", 2500, 10000,
                    "February 1, 2026", 300, 340, "Medium", "Diversity") >>)

add_first_gen_scholarships(p) ==
    << Args("First Generation Scholarship Program", 2500, 10000,
            "February 15, 2026", 280, 330, "Medium", "National") >>

add_military_scholarships(p) ==
    << Args("Military Dependents Scholarship", 5000, 15000,
            "March 1, 2026", 250, 300, "Medium", "Military") >>

\* The calls research_scholarships makes between the database load and the
\* duplicate pass, for the rule blocks modelled above.
StaticArgs(p) ==
    add_universal_scholarships(p)
    \o add_diversity_scholarships(p)
    \o When(SelfFirstGen(p), add_first_gen_scholarships(p))
    \o When(SelfMilitary(p), add_military_scholarships(p))

\* the duplicate pass: the first record of each name, in order
RECURSIVE Unique(_, _, _)
Unique(list, i, seen_names) ==
    IF i > Len(list) THEN <<>>
    ELSE IF list[i].name \notin seen_names
         THEN <<list[i]>> \o Unique(list, i + 1, seen_names \cup {list[i].name})
         ELSE Unique(list, i + 1, seen_names)

\* the expiry pass
NotExpired(list, t) ==
    LET Keep(s) == ~ is_expired(s, t)
    IN SelectSeq(list, Keep)

(***************************************************************************)
(* Inputs of the matcher calls.  BaseProfile is the profile that           *)
(* search_scholarships builds when the request carries no field: every key *)
(* present, free-text fields at the 'Not specified' sentinel.  A caller of *)
(* the loader may pass a dict that lacks keys (the loader's own example    *)
(* profile has no 'state', 'year' or 'discipline').                        *)
(***************************************************************************)
Absent == "<absent>"

BaseProfile ==
    [gpa |-> 350, university |-> "University", major |-> "Engineering",
     year |-> "Sophomore", heritage |-> "Not specified",
     gender |-> "Not specified", state |-> "Not specified",
     residency |-> "Not specified", discipline |-> "General",
     clubs |-> "Not specified"]

ProfileEdits ==
    { <<"year", "Senior">>, <<"year", "High School Senior">>,
      <<"year", "sophomore">>,
      <<"major", "Computer Science">>,
      <<"discipline", "Computer Engineering">>,
      <<"heritage", "Caucasian">>, <<"heritage", "Asian American">>,
      <<"university", "Purdue">>,
      <<"university", "Purdue University Fort Wayne">>,
      <<"state", "Indiana">>, <<"state", "">>, <<"state", Absent>>,
      <<"residency", "International">>, <<"residency", "INTERNATIONAL">>,
      <<"residency", "DACA">>,
      <<"gender", "Female">>, <<"clubs", "NSBE, IEEE">> }

ProfileGpas == {200, 300}

ApplyEdit(p, e) ==
    IF e[2] = Absent
    THEN [k \in DOMAIN p \ {e[1]} |-> p[k]]
    ELSE [k \in DOMAIN p \cup {e[1]} |-> IF k = e[1] THEN e[2] ELSE p[k]]

RECURSIVE ProfilesUpTo(_)
ProfilesUpTo(n) ==
    IF n = 0
    THEN { [BaseProfile EXCEPT !.gpa = g] : g \in ProfileGpas }
    ELSE ProfilesUpTo(n - 1)
         \cup { ApplyEdit(p, e) : p \in ProfilesUpTo(n - 1), e \in ProfileEdits }

Profiles == ProfilesUpTo(MaxOverrides)

\* One key of a requirements dict with its list of allowed values.
RequirementChoices ==
    { <<"major", <<"Computer">> >>,
      <<"heritage", <<"Asian">> >>,
      <<"university", <<"Purdue University">> >>,
      <<"gender", <<"Female">> >>,
      <<"clubs", <<"NSBE">> >>,
      <<"citizenship", <<"US Citizen">> >>,
      <<"year", <<"Senior">> >>,
      <<"year", <<"Sophomore", "Junior">> >>,
      <<"state", <<"Indiana">> >>,
      <<"residency", <<"DACA", "Undocumented">> >> }

AddRequirement(reqs, c) ==
    [k \in DOMAIN reqs \cup {c[1]} |-> IF k = c[1] THEN c[2] ELSE reqs[k]]

RECURSIVE RequirementSets(_)
RequirementSets(n) ==
    IF n = 0 THEN { <<>> }
    ELSE RequirementSets(n - 1)
         \cup { AddRequirement(r, c) :
                    r \in RequirementSets(n - 1), c \in RequirementChoices }

\* Catalog entries as the matcher sees them: gpa_min and requirements are
\* optional keys of the JSON object.
MatcherRecords ==
    { [name |-> "R", status |-> "active"] }
    \cup { [name |-> "R", status |-> "active", gpa_min |-> 300] }
    \cup { [name |-> "R", status |-> "active", requirements |-> r] :
               r \in RequirementSets(MaxReqs) }
    \cup { [name |-> "R", status |-> "active", gpa_min |-> 300,
            requirements |-> r] : r \in RequirementSets(MaxReqs) }

Opportunities ==
    { [gpa_min |-> 300, eligible_years |-> ys, majors |-> ms] :
        ys \in { <<>>, <<"Senior">>, <<"Sophomore", "Junior", "Senior">> },
        ms \in { <<>>, <<"Computer Science", "Computer Engineering">> } }

(***************************************************************************)
(* Specification of the two matchers: a behaviour is one call on inputs    *)
(* drawn from the sets above.                                               *)
(***************************************************************************)
InitMatch ==
    /\ ExtIdle
    /\ call = [op |-> "none"]
    /\ student_profile = BaseProfile
    /\ catalog = <<>>
    /\ scholarships = <<>>
    /\ today = 0
    /\ user_gpa = BaseProfile.gpa
    /\ now = 0
    /\ pc = "idle"

CallMatchesProfile ==
    /\ call.op = "none"
    /\ \E s \in MatcherRecords, p \in Profiles :
           call' = [op |-> "matches_profile", scholarship |-> s, profile |-> p,
                    exit |-> MatchesProfileExit(s, p),
                    result |-> matches_profile(s, p)]
    /\ UNCHANGED ext_vars
    /\ UNCHANGED <<student_profile, catalog, scholarships, today, user_gpa, now, pc>>

CallOppMatchesProfile ==
    /\ call.op = "none"
    /\ \E o \in Opportunities, p \in Profiles :
           call' = [op |-> "opp_matches_profile", opp |-> o, profile |-> p,
                    exit |-> OppMatchesProfileExit(o, p),
                    result |-> opp_matches_profile(o, p)]
    /\ UNCHANGED ext_vars
    /\ UNCHANGED <<student_profile, catalog, scholarships, today, user_gpa, now, pc>>

NextMatch == CallMatchesProfile \/ CallOppMatchesProfile

SpecMatch == InitMatch /\ [][NextMatch]_vars

(***************************************************************************)
(* search_scholarships (app.py): the profile built from the request body,  *)
(* and the agent constructed from it.  data.get(k, '') or 'Not specified'  *)
(* turns a missing or empty field into the sentinel.                       *)
(***************************************************************************)
OrElse(v, dflt) == IF v = "" THEN dflt ELSE v

BuildProfile(data) ==
    [gpa |-> Get(data, "gpa", 350),
     university |-> Get(data, "university", "University"),
     major |-> Get(data, "major", "Engineering"),
     year |-> Get(data, "year", "Sophomore"),
     heritage |-> OrElse(Get(data, "heritage", ""), "Not specified"),
     gender |-> OrElse(Get(data, "gender", ""), "Not specified"),
     state |-> OrElse(Get(data, "state", ""), "Not specified"),
     residency |-> OrElse(Get(data, "residency", ""), "Not specified"),
     first_gen |-> Get(data, "first_gen", FALSE),
     military |-> Get(data, "military", FALSE),
     discipline |-> OrElse(Get(data, "discipline", ""), "General"),
     clubs |-> OrElse(Get(data, "clubs", ""), "Not specified")]

Requests ==
    { [gpa |-> g, heritage |-> h, year |-> y,
       first_gen |-> (f = "first_gen"), military |-> (f = "military")] :
        g \in {200, 350},
        h \in {"", "Hispanic", "Non-Hispanic White", "Asian American"},
        y \in {"Sophomore", "High School Senior"},
        f \in {"none", "first_gen", "military"} }

\* Entries of scholarship_database.json.
CatalogEntries ==
    { [name |-> "Hispanic Scholarship Fund", status |-> "active",
       amount_min |-> 500, amount_max |-> 5000,
       deadline |-> "January 31, 2026", gpa_min |-> 250,
       requirements |-> [heritage |-> <<"Hispanic", "Latino">>]],
      [name |-> "Merit Award", status |-> "active",
       amount_min |-> 1000, amount_max |-> 2000,
       deadline |-> "Rolling", gpa_min |-> 300, gpa_preferred |-> 350],
      [name |-> "Sophomore Grant", status |-> "active",
       amount_min |-> 5000, amount_max |-> 5000,
       deadline |-> "01/15/2026",
       requirements |-> [year |-> <<"Sophomore">>],
       details |-> [competitiveness |-> "Low"]],
      [name |-> "Closed Fund", status |-> "inactive",
       amount_min |-> 100, amount_max |-> 100, deadline |-> "Rolling"] }

Catalogs == UNION { [1..n -> CatalogEntries] : n \in 0..MaxCatalog }

\* Values of datetime.now() when the agent is constructed.
StartTimes ==
    { MakeDate(2026, 1, 15), MakeDate(2026, 1, 15) + 1,
      MakeDate(2026, 2, 14) + 1, MakeDate(2026, 2, 16) }

(***************************************************************************)
(* Specification of one search: the agent is constructed, then             *)
(* research_scholarships runs its passes in order while the wall clock     *)
(* may advance.                                                            *)
(***************************************************************************)
Init ==
    /\ ExtIdle
    /\ call = [op |-> "none"]
    /\ \E data \in Requests :
           /\ student_profile = BuildProfile(data)
           /\ user_gpa = Get(data, "gpa", 350)
    /\ catalog \in Catalogs
    /\ scholarships = <<>>
    /\ today \in StartTimes
    /\ now = today
    /\ pc = "load"

\* research_scholarships: self.load_scholarships_from_database()
LoadScholarshipsFromDatabase ==
    /\ pc = "load"
    /\ scholarships' = load_scholarships_from_database(
                           scholarships, catalog, student_profile, today,
                           user_gpa)
    /\ pc' = "static"
    /\ UNCHANGED ext_vars
    /\ UNCHANGED <<call, student_profile, catalog, today, user_gpa, now>>

\* research_scholarships: the static rule blocks
AddStaticScholarships ==
    /\ pc = "static"
    /\ scholarships' = add_scholarship(scholarships,
                                       StaticArgs(student_profile), today,
                                       user_gpa)
    /\ pc' = "dedup"
    /\ UNCHANGED ext_vars
    /\ UNCHANGED <<call, student_profile, catalog, today, user_gpa, now>>

\* research_scholarships: REMOVE DUPLICATE SCHOLARSHIPS
RemoveDuplicates ==
    /\ pc = "dedup"
    /\ scholarships' = Unique(scholarships, 1, {})
    /\ pc' = "expiry"
    /\ UNCHANGED ext_vars
    /\ UNCHANGED <<call, student_profile, catalog, today, user_gpa, now>>

\* research_scholarships: FILTER OUT EXPIRED SCHOLARSHIPS
FilterExpired ==
    /\ pc = "expiry"
    /\ scholarships' = NotExpired(scholarships, now)
    /\ pc' = "done"
    /\ UNCHANGED ext_vars
    /\ UNCHANGED <<call, student_profile, catalog, today, user_gpa, now>>

\* the wall clock advances while the search runs
Tick ==
    /\ pc \in {"load", "static", "dedup", "expiry"}
    /\ now - today < MaxElapsed
    /\ now' = now + 1
    /\ UNCHANGED ext_vars
    /\ UNCHANGED <<call, student_profile, catalog, scholarships, today,
                   user_gpa, pc>>

Next ==
    \/ LoadScholarshipsFromDatabase
    \/ AddStaticScholarships
    \/ RemoveDuplicates
    \/ FilterExpired
    \/ Tick

Spec == Init /\ [][Next]_vars

(***************************************************************************)
(* DynamicScholarshipAgent: the operations on a result set.  sorted() is   *)
(* list.sort on a copy: a stable ascending sort by key; with reverse=True  *)
(* the list is reversed, sorted stably ascending and reversed again.       *)
(***************************************************************************)
Reverse(list) == [i \in 1..Len(list) |-> list[Len(list) + 1 - i]]

RECURSIVE InsertByKey(_, _, _)
InsertByKey(ordered, x, key) ==
    IF Len(ordered) = 0 THEN <<x>>
    ELSE IF x[key] < Head(ordered)[key] THEN <<x>> \o ordered
    ELSE <<Head(ordered)>> \o InsertByKey(Tail(ordered), x, key)

RECURSIVE StableSort(_, _)
StableSort(list, key) ==
    IF Len(list) = 0 THEN <<>>
    ELSE InsertByKey(StableSort(SubSeq(list, 1, Len(list) - 1), key),
                     list[Len(list)], key)

sorted_unstable(list, key, reverse) ==
    IF reverse THEN Reverse(StableSort(list, key)) ELSE StableSort(list, key)

sorted(list, key, reverse) ==
    IF reverse THEN Reverse(StableSort(Reverse(list), key))
    ELSE StableSort(list, key)

sort_by_priority(list) == sorted(list, "priority_score", TRUE)

sort_by_deadline(list) == sorted(list, "days_until_deadline", FALSE)

sort_by_amount(list) == sorted(list, "amount_max", TRUE)

\* the duplicate pass of research_scholarships on a result set
unique_scholarships_last(list) == Reverse(Unique(Reverse(list), 1, {}))

unique_scholarships(list) == Unique(list, 1, {})

(***************************************************************************)
(* Specification of the operations on a result set: the agent is           *)
(* constructed, add_scholarship is called for a list of arguments, then    *)
(* one operation runs.                                                     *)
(***************************************************************************)
\* number of add_scholarship calls that build the result set
MaxList == 3

\* Arguments of add_scholarship: two pairs share a name with different data,
\* one deadline lies more than 999 days ahead, two are keywords.
SampleArgs ==
    { Args("Merit Award", 1000, 2000, "Rolling", 300, 350, "Low", "Database"),
      Args("Merit Award", 5000, 5000, "March 1, 2026", 250, 300, "Medium",
           "National"),
      Args("Future Leaders Grant", 2500, 5000, "2029-12-31", 0, 0, "Medium",
           "Database"),
      Args("Sophomore Grant", 5000, 5000, "01/15/2026", 0, 0, "Low",
           "Database"),
      Args("Ongoing Aid", 500, 2000, "Ongoing", 350, 370, "High",
           "Database") }

ArgLists == UNION { [1..n -> SampleArgs] : n \in 0..MaxList }

OpsGpas == {200, 300, 350}

OpsTimes == { MakeDate(2026, 1, 15) + 1, MakeDate(2026, 2, 14) }

InitOps ==
    /\ ExtIdle
    /\ call = [op |-> "none"]
    /\ user_gpa \in OpsGpas
    /\ student_profile = [BaseProfile EXCEPT !.gpa = user_gpa]
    /\ catalog = <<>>
    /\ today \in OpsTimes
    /\ now = today
    /\ \E args \in ArgLists :
           scholarships = add_scholarship(<<>>, args, today, user_gpa)
    /\ pc = "idle"

\* research_scholarships: REMOVE DUPLICATE SCHOLARSHIPS, on this result set
DedupPass ==
    /\ call.op = "none"
    /\ scholarships' = unique_scholarships(scholarships)
    /\ call' = [op |-> "dedup", before |-> scholarships]
    /\ UNCHANGED ext_vars
    /\ UNCHANGED <<student_profile, catalog, today, user_gpa, now, pc>>

\* Scholarship values handed to calculate_priority_score: the fields it
\* reads, at and around every threshold of its tables.
ScoreAmounts ==
    { <<0, 0>>, <<1999, 2000>>, <<2000, 2000>>, <<4999, 5000>>,
      <<5000, 5000>>, <<9999, 10000>>, <<10000, 10000>>, <<50000, 100000>> }

ScoreDays == {-400, 0, 30, 31, 60, 61, 90, 91, 180, 181, 999, 1500}

ScoreGpas == { <<250, 300>>, <<300, 350>>, <<360, 380>> }

ScoreCompetitiveness == {"Low", "Medium", "High", "Very High", "Extreme"}

ScoreInputs ==
    { [amount_min |-> a[1], amount_max |-> a[2], days_until_deadline |-> d,
       min_gpa |-> g[1], recommended_gpa |-> g[2], competitiveness |-> c] :
        a \in ScoreAmounts, d \in ScoreDays, g \in ScoreGpas,
        c \in ScoreCompetitiveness }

\* self.calculate_priority_score(scholarship), on an agent with no records
CallCalculatePriorityScore ==
    /\ call.op = "none"
    /\ Len(scholarships) = 0
    /\ \E s \in ScoreInputs :
           call' = [op |-> "calculate_priority_score", scholarship |-> s,
                    result |-> calculate_priority_score(user_gpa, s)]
    /\ UNCHANGED ext_vars
    /\ UNCHANGED <<student_profile, catalog, scholarships, today, user_gpa, now, pc>>

(***************************************************************************)
(* ResearchOpportunity.calculate_priority.  Scores are held in hundredths  *)
(* (round(score, 2)); (stipend_amount / 10000) * 40 is stipend_amount *    *)
(* 0.4 hundredths, rounded to the nearest (it never falls on a half).      *)
(***************************************************************************)
OppStipendScore(opp) ==
    IF opp.stipend_amount > 0 THEN (opp.stipend_amount * 4 + 5) \div 10 ELSE 0

OppGpaScore(opp, profile) ==
    LET student_gpa == Get(profile, "gpa", 0)
    IN IF student_gpa >= opp.gpa_preferred THEN 3000
       ELSE IF student_gpa >= opp.gpa_min THEN 1500
       ELSE 0

OppBenefitScore(opp) ==
    (IF opp.housing_provided THEN 1000 ELSE 0)
    + (IF opp.travel_covered THEN 1000 ELSE 0)

OppCompScore(opp) ==
    IF opp.competitiveness = "Low" THEN 1000
    ELSE IF opp.competitiveness = "Medium" THEN 700
    ELSE IF opp.competitiveness = "High" THEN 400
    ELSE IF opp.competitiveness = "Very High" THEN 200
    ELSE 500

calculate_priority(opp, profile) ==
    OppStipendScore(opp) + OppGpaScore(opp, profile)
    + OppBenefitScore(opp) + OppCompScore(opp)

\* ResearchOpportunity values as the add_*_programs methods construct them
\* (the fields calculate_priority reads), and two with other values.
PriorityOpportunities ==
    { [name |-> "NIH Undergraduate Scholarship Program (UGSP)",
       stipend_amount |-> 20000, gpa_min |-> 350, gpa_preferred |-> 380,
       housing_provided |-> TRUE, travel_covered |-> TRUE,
       competitiveness |-> "Very High"],
      [name |-> "NIH Summer Internship Program (SIP)",
       stipend_amount |-> 3000, gpa_min |-> 300, gpa_preferred |-> 350,
       housing_provided |-> FALSE, travel_covered |-> TRUE,
       competitiveness |-> "Very High"],
      [name |-> "NSF REU in Computer Science",
       stipend_amount |-> 6000, gpa_min |-> 300, gpa_preferred |-> 330,
       housing_provided |-> TRUE, travel_covered |-> TRUE,
       competitiveness |-> "High"],
      [name |-> "Google Research Internship",
       stipend_amount |-> 10000, gpa_min |-> 350, gpa_preferred |-> 380,
       housing_provided |-> FALSE, travel_covered |-> FALSE,
       competitiveness |-> "Very High"],
      [name |-> "MIT UROP (Undergraduate Research Opportunities Program)",
       stipend_amount |-> 4000, gpa_min |-> 300, gpa_preferred |-> 330,
       housing_provided |-> FALSE, travel_covered |-> FALSE,
       competitiveness |-> "Medium"],
      [name |-> "Volunteer Lab Assistant",
       stipend_amount |-> 0, gpa_min |-> 0, gpa_preferred |-> 0,
       housing_provided |-> FALSE, travel_covered |-> FALSE,
       competitiveness |-> "Open"],
      [name |-> "Campus Research Credit",
       stipend_amount |-> 1234, gpa_min |-> 250, gpa_preferred |-> 300,
       housing_provided |-> TRUE, travel_covered |-> FALSE,
       competitiveness |-> "Low"] }

\* opp.calculate_priority(self.student_profile)
CallCalculatePriority ==
    /\ call.op = "none"
    /\ Len(scholarships) = 0
    /\ \E o \in PriorityOpportunities :
           call' = [op |-> "calculate_priority", opp |-> o,
                    result |-> calculate_priority(o, student_profile)]
    /\ UNCHANGED ext_vars
    /\ UNCHANGED <<student_profile, catalog, scholarships, today, user_gpa, now, pc>>

\* Raw deadline strings: the empty string, the keywords, malformed text,
\* each exact format, and free text that names a month and a year.
DeadlineStrings ==
    { "", "Rolling", "Varies", "Ongoing", "Multiple deadlines", "soon!!",
      "13/45/2026", "February 30, 2026", "2026-01-15", "March 15,2026",
      "Feb 1, 2026", "1/5/2026", "december 2025", "2029-12-31",
      "Mid-April 2026", "Late October 2025", "Early March 2025",
      "Summer (June 2027)" }

\* self.add_scholarship(..., deadline=d, ...) on an agent with no records
CallAddScholarship ==
    /\ call.op = "none"
    /\ Len(scholarships) = 0
    /\ \E d \in DeadlineStrings :
           /\ scholarships' =
                  add_scholarship(scholarships,
                                  << Args("Probe Award", 1000, 2000, d, 0, 0,
                                          "Medium", "General") >>,
                                  today, user_gpa)
           /\ call' = [op |-> "add_scholarship", deadline |-> d]
    /\ UNCHANGED ext_vars
    /\ UNCHANGED <<student_profile, catalog, today, user_gpa, now, pc>>

\* search_scholarships: days_until_deadline as the response shows it (the
\* JSON text of the value)
Presented(s) ==
    IF s.days_until_deadline >= 999 THEN "TBD"
    ELSE ToString(s.days_until_deadline)

\* scholarships = agent.sort_by_priority()
SortByPriority ==
    /\ call.op = "none"
    /\ call' = [op |-> "sort_by_priority",
                result |-> sort_by_priority(scholarships)]
    /\ UNCHANGED ext_vars
    /\ UNCHANGED <<student_profile, catalog, scholarships, today, user_gpa, now, pc>>

\* scholarships = agent.sort_by_deadline()
SortByDeadline ==
    /\ call.op = "none"
    /\ call' = [op |-> "sort_by_deadline",
                result |-> sort_by_deadline(scholarships)]
    /\ UNCHANGED ext_vars
    /\ UNCHANGED <<student_profile, catalog, scholarships, today, user_gpa, now, pc>>

\* scholarships = agent.sort_by_amount()
SortByAmount ==
    /\ call.op = "none"
    /\ call' = [op |-> "sort_by_amount",
                result |-> sort_by_amount(scholarships)]
    /\ UNCHANGED ext_vars
    /\ UNCHANGED <<student_profile, catalog, scholarships, today, user_gpa, now, pc>>

(***************************************************************************)
(* The aggregates: filter_by_gpa, get_urgent_deadlines,                    *)
(* get_total_potential_award, generate_summary_stats and the stats dict of *)
(* search_scholarships.  A sum of (amount_min + amount_max) / 2 is held as *)
(* its double; f"{x:,.0f}" rounds a half to the even integer; a mean is    *)
(* the pair <<sum, count>> (<<0, 1>> for the 0 of an empty list).          *)
(***************************************************************************)
filter_by_gpa(list, gpa) ==
    LET Eligible(s) == s.min_gpa <= gpa
    IN SelectSeq(list, Eligible)

get_urgent_deadlines(list, days) ==
    LET Urgent(s) == s.days_until_deadline <= days /\ s.days_until_deadline > 0
    IN SelectSeq(list, Urgent)

RECURSIVE SumTwiceAverage(_)
SumTwiceAverage(list) ==
    IF Len(list) = 0 THEN 0
    ELSE Head(list).amount_min + Head(list).amount_max
         + SumTwiceAverage(Tail(list))

RECURSIVE SumPriority(_)
SumPriority(list) ==
    IF Len(list) = 0 THEN 0
    ELSE Head(list).priority_score + SumPriority(Tail(list))

get_total_potential_award(list, gpa) == SumTwiceAverage(filter_by_gpa(list, gpa))

FormatDollars(twice) ==
    LET whole == twice \div 2
    IN IF twice % 2 = 0 \/ whole % 2 = 0 THEN whole ELSE whole + 1

Mean(list) == IF Len(list) > 0 THEN <<SumPriority(list), Len(list)>> ELSE <<0, 1>>

generate_summary_stats(list, gpa) ==
    [total_scholarships |-> Len(list),
     gpa_eligible |-> Len(filter_by_gpa(list, gpa)),
     urgent_deadlines_30_days |-> Len(get_urgent_deadlines(list, 30)),
     total_potential_award |->
         FormatDollars(get_total_potential_award(list, gpa)),
     avg_priority_score |-> Mean(filter_by_gpa(list, gpa))]

\* the stats dict of search_scholarships, over the sorted list
search_stats(list, gpa) ==
    [total_scholarships |-> Len(list),
     gpa_eligible |-> Len(filter_by_gpa(list, gpa)),
     urgent_deadlines_30_days |-> Len(get_urgent_deadlines(list, 30)),
     total_potential_award |-> FormatDollars(SumTwiceAverage(list)),
     average_priority |-> Mean(list)]

\* search_scholarships builds its stats; generate_summary_stats is called
\* on the same agent
ReportStats ==
    /\ call.op = "none"
    /\ call' = [op |-> "stats",
                search |-> search_stats(sort_by_priority(scholarships),
                                        user_gpa),
                summary |-> generate_summary_stats(scholarships, user_gpa)]
    /\ UNCHANGED ext_vars
    /\ UNCHANGED <<student_profile, catalog, scholarships, today, user_gpa, now, pc>>

\* Values of datetime.now() at the expiry pass: the day the agent was
\* constructed, and a day after every deadline of the result set.
ExpiryTimes(t) == { t, t + 1, MakeDate(2031, 1, 1) }

\* research_scholarships: FILTER OUT EXPIRED SCHOLARSHIPS, on this result set
ExpiryPass ==
    /\ call.op = "none"
    /\ \E t \in ExpiryTimes(today) :
           /\ now' = t
           /\ scholarships' = NotExpired(scholarships, t)
    /\ call' = [op |-> "expiry", before |-> scholarships]
    /\ UNCHANGED ext_vars
    /\ UNCHANGED <<student_profile, catalog, today, user_gpa, pc>>

\* opp.calculate_priority(profile) as a method call: the opportunity after
\* it (score starts from 0.0 and is assigned to self.priority_score)
calculate_priority_call_accumulating(opp, profile) ==
    [opp EXCEPT !.priority_score = @ + calculate_priority(opp, profile)]

calculate_priority_call(opp, profile) ==
    [opp EXCEPT !.priority_score = calculate_priority(opp, profile)]

\* a ResearchOpportunity as constructed: priority_score at its default 0.0
NewOpportunity(o) == o @@ [priority_score |-> 0]

\* opp.calculate_priority(profile) called twice on one opportunity
CalculatePriorityTwice ==
    /\ call.op = "none"
    /\ Len(scholarships) = 0
    /\ \E o \in PriorityOpportunities :
           LET once == calculate_priority_call(NewOpportunity(o),
                                               student_profile)
               twice == calculate_priority_call(once, student_profile)
           IN call' = [op |-> "calculate_priority_twice", first |-> once,
                       second |-> twice]
    /\ UNCHANGED ext_vars
    /\ UNCHANGED <<student_profile, catalog, scholarships, today, user_gpa, now, pc>>

\* self.calculate_priority_score(s) called again for every record of the
\* result set
RescoreScholarships ==
    /\ call.op = "none"
    /\ call' = [op |-> "rescore", before |-> scholarships,
                gpa |-> user_gpa,
                scores |-> [i \in 1..Len(scholarships) |->
                               calculate_priority_score(user_gpa,
                                                        scholarships[i])]]
    /\ UNCHANGED ext_vars
    /\ UNCHANGED <<student_profile, catalog, scholarships, today, user_gpa, now, pc>>

(***************************************************************************)
(* CalendarGenerator.export (scholarship_output_modules.py): the VEVENTs   *)
(* written, in order.  Dates are ordinals (days).                          *)
(***************************************************************************)
\* d.replace(day=1): the first day of the month an ordinal falls in
FirstOfMonth(ord) ==
    LET firsts == { Ordinal(y, m, 1) :
                        y \in (ord \div 366)..(ord \div 365 + 1), m \in 1..12 }
    IN CHOOSE f \in firsts :
           /\ f <= ord
           /\ \A g \in firsts : g <= ord => g <= f

ReminderDate(s) == FirstOfMonth(DateOf(s.deadline_date)) - 30

EventsOf(s) ==
    IF s.deadline_date = NoDate THEN <<>>
    ELSE << [kind |-> "DEADLINE", name |-> s.name,
             date |-> DateOf(s.deadline_date)] >>
         \o (IF s.days_until_deadline > 30
             THEN << [kind |-> "REMINDER", name |-> s.name,
                      date |-> ReminderDate(s)] >>
             ELSE <<>>)

RECURSIVE CalendarEvents(_)
CalendarEvents(list) ==
    IF Len(list) = 0 THEN <<>>
    ELSE EventsOf(Head(list)) \o CalendarEvents(Tail(list))

\* CalendarGenerator().export(scholarships, filepath)
ExportCalendar ==
    /\ call.op = "none"
    /\ call' = [op |-> "calendar", events |-> CalendarEvents(scholarships)]
    /\ UNCHANGED ext_vars
    /\ UNCHANGED <<student_profile, catalog, scholarships, today, user_gpa, now, pc>>

(***************************************************************************)
(* ScholarshipDatabase.load_database.  The file on disk is missing, or     *)
(* holds the first `written` chunks of the JSON text of a catalog: an      *)
(* opening chunk, one chunk per entry and a closing chunk.  json.load      *)
(* raises JSONDecodeError on any text but the complete one; both it and    *)
(* any other exception are caught and give the empty database.             *)
(***************************************************************************)
Chunks(entries) == Len(entries) + 2

EmptyDatabase == [scholarships |-> <<>>]

IsCompleteJson(f) == f.exists /\ f.written = Chunks(f.catalog)

load_database_unchecked(f) ==
    IF f.exists THEN [scholarships |-> f.catalog] ELSE EmptyDatabase

load_database(f) ==
    IF ~ f.exists THEN EmptyDatabase
    ELSE IF ~ IsCompleteJson(f) THEN EmptyDatabase
    ELSE [scholarships |-> f.catalog]

FileCatalogs == {<<>>} \cup { <<e>> : e \in CatalogEntries }

FileStates ==
    { [exists |-> FALSE] }
    \cup { [exists |-> TRUE, catalog |-> c, written |-> k] :
               c \in FileCatalogs, k \in 0..3 }

\* ScholarshipDatabase(path) then get_scholarships_for_profile(profile)
CallLoadDatabase ==
    /\ call.op = "none"
    /\ Len(scholarships) = 0
    /\ \E f \in FileStates :
           /\ f.exists => f.written <= Chunks(f.catalog)
           /\ call' = [op |-> "load_database", file |-> f,
                       data |-> load_database(f),
                       matched |-> get_scholarships_for_profile(
                                       load_database(f).scholarships,
                                       student_profile)]
    /\ UNCHANGED ext_vars
    /\ UNCHANGED <<student_profile, catalog, scholarships, today, user_gpa, now, pc>>

\* one operation per behaviour
NextOps ==
    \/ DedupPass
    \/ CallCalculatePriorityScore
    \/ CallCalculatePriority
    \/ CallAddScholarship
    \/ SortByPriority
    \/ SortByDeadline
    \/ SortByAmount
    \/ ReportStats
    \/ ExpiryPass
    \/ CalculatePriorityTwice
    \/ RescoreScholarships
    \/ ExportCalendar
    \/ CallLoadDatabase

SpecOps == InitOps /\ [][NextOps]_vars

(***************************************************************************)
(* One agent used more than once.  research_scholarships appends to        *)
(* self.scholarships, which only the constructor empties, then runs the    *)
(* duplicate and the expiry pass over the whole list.                      *)
(* research_opportunities appends to self.opportunities, which only the    *)
(* constructor empties, and has no duplicate pass.                         *)
(***************************************************************************)
MaxCalls == 2

research_scholarships_no_dedup(list, db, profile, t, gpa, n) ==
    NotExpired(add_scholarship(
                   load_scholarships_from_database(list, db, profile, t, gpa),
                   StaticArgs(profile), t, gpa),
               n)

research_scholarships(list, db, profile, t, gpa, n) ==
    NotExpired(unique_scholarships(
                   add_scholarship(
                       load_scholarships_from_database(list, db, profile, t,
                                                       gpa),
                       StaticArgs(profile), t, gpa)),
               n)

\* Opportunities the add_* methods append, in source order.
StaticOpportunities ==
    << [name |-> "NSF REU in Computer Science",
        stipend_amount |-> 6000, gpa_min |-> 300, gpa_preferred |-> 330,
        eligible_years |-> <<"Sophomore", "Junior", "Senior">>,
        majors |-> <<"Computer Science", "Computer Engineering",
                     "Information Technology">>,
        housing_provided |-> TRUE, travel_covered |-> TRUE,
        competitiveness |-> "High"],
       [name |-> "NSF REU in Engineering",
        stipend_amount |-> 6000, gpa_min |-> 300, gpa_preferred |-> 350,
        eligible_years |-> <<"Sophomore", "Junior", "Senior">>,
        majors |-> <<"Engineering", "Mechanical Engineering",
                     "Electrical Engineering", "Chemical Engineering">>,
        housing_provided |-> TRUE, travel_covered |-> TRUE,
        competitiveness |-> "High"],
       [name |-> "NIH Undergraduate Scholarship Program (UGSP)",
        stipend_amount |-> 20000, gpa_min |-> 350, gpa_preferred |-> 380,
        eligible_years |-> <<"Sophomore", "Junior">>,
        majors |-> <<"Biology", "Chemistry", "Pre-Med", "Public Health">>,
        housing_provided |-> TRUE, travel_covered |-> TRUE,
        competitiveness |-> "Very High"],
       [name |-> "DOE Science Undergraduate Laboratory Internship (SULI)",
        stipend_amount |-> 7200, gpa_min |-> 300, gpa_preferred |-> 350,
        eligible_years |-> <<"Sophomore", "Junior", "Senior">>,
        majors |-> <<"Physics", "Engineering", "Computer Science",
                     "Chemistry">>,
        housing_provided |-> TRUE, travel_covered |-> TRUE,
        competitiveness |-> "High"],
       [name |-> "Google Research Internship",
        stipend_amount |-> 10000, gpa_min |-> 350, gpa_preferred |-> 380,
        eligible_years |-> <<"Junior", "Senior">>,
        majors |-> <<"Computer Science", "Computer Engineering">>,
        housing_provided |-> FALSE, travel_covered |-> FALSE,
        competitiveness |-> "Very High"] >>

\* self.opportunities after the add_* methods of one call
add_opportunities(opps) ==
    opps \o [i \in 1..Len(StaticOpportunities) |->
                 NewOpportunity(StaticOpportunities[i])]

\* self.opportunities after the call: calculate_priority has assigned the
\* score of every matching opportunity
opportunities_after(opps, profile) ==
    LET all == add_opportunities(opps)
    IN [i \in 1..Len(all) |->
            IF opp_matches_profile(all[i], profile)
            THEN calculate_priority_call(all[i], profile)
            ELSE all[i]]

\* the list the call returns
research_opportunities(opps, profile) ==
    LET Matches(o) == opp_matches_profile(o, profile)
        matched == SelectSeq(opportunities_after(opps, profile), Matches)
    IN sorted(matched, "priority_score", TRUE)

\* A catalog entry whose citizenship requirement is a flag.
FlagEntry ==
    [name |-> "Citizen Award", status |-> "active",
     amount_min |-> 1000, amount_max |-> 1000, deadline |-> "Rolling",
     requirements |-> [citizenship |-> TRUE]]

AgentEntries ==
    { FlagEntry }
    \cup { e \in CatalogEntries :
               e.name \in {"Merit Award", "Hispanic Scholarship Fund"} }

AgentCatalogs == UNION { [1..n -> AgentEntries] : n \in 0..MaxCatalog }

AgentRequests ==
    { r \in Requests : /\ r.heritage \in {"", "Hispanic"}
                       /\ ~ r.first_gen }

AgentTimes == { MakeDate(2026, 1, 15) + 1, MakeDate(2026, 2, 14) + 1 }

InitAgents ==
    /\ ExtIdle
    /\ call = [op |-> "none"]
    /\ \E data \in AgentRequests :
           /\ student_profile = BuildProfile(data)
           /\ user_gpa = Get(data, "gpa", 350)
    /\ catalog \in AgentCatalogs
    /\ scholarships = <<>>
    /\ today \in AgentTimes
    /\ now = today
    /\ pc = "idle"

\* agent.load_scholarships_from_database() on the new agent
CallLoadScholarships ==
    /\ call.op = "none"
    /\ scholarships' = load_scholarships_from_database(
                           scholarships, catalog, student_profile, today,
                           user_gpa)
    /\ call' = [op |-> "load_scholarships_from_database"]
    /\ UNCHANGED ext_vars
    /\ UNCHANGED <<student_profile, catalog, today, user_gpa, now, pc>>

\* agent.research_scholarships(), the first time or again
CallResearchScholarships ==
    /\ call.op \in {"none", "research_scholarships"}
    /\ Get(call, "calls", 0) < MaxCalls
    /\ LET after == research_scholarships(scholarships, catalog,
                                          student_profile, today, user_gpa,
                                          now)
       IN /\ scholarships' = after
          /\ call' = [op |-> "research_scholarships",
                      calls |-> Get(call, "calls", 0) + 1,
                      first |-> Get(call, "first", after)]
    /\ UNCHANGED ext_vars
    /\ UNCHANGED <<student_profile, catalog, today, user_gpa, now, pc>>

\* opportunity_agent.research_opportunities(), the first time or again
CallResearchOpportunities ==
    /\ call.op \in {"none", "research_opportunities"}
    /\ Get(call, "calls", 0) < MaxCalls
    /\ LET result == research_opportunities(opportunities, student_profile)
       IN /\ opportunities' = opportunities_after(opportunities,
                                                  student_profile)
          /\ call' = [op |-> "research_opportunities",
                      calls |-> Get(call, "calls", 0) + 1,
                      first |-> Get(call, "first", result),
                      result |-> result]
    /\ UNCHANGED <<file, db_data, changes, requests>>
    /\ UNCHANGED <<student_profile, catalog, scholarships, today, user_gpa, now, pc>>

NextAgents ==
    \/ CallLoadScholarships
    \/ CallResearchScholarships
    \/ CallResearchOpportunities

SpecAgents == InitAgents /\ [][NextAgents]_vars

(***************************************************************************)
(* Interleaved searches.  Each request handled by search_scholarships      *)
(* builds its own profile and constructs its own agent; the handlers run   *)
(* in threads that interleave between the passes.  requests[i] holds the   *)
(* locals of invocation i and the fields of its agent; the catalog file is *)
(* read by every invocation and written by none.                           *)
(***************************************************************************)
MaxInvocations == 2

\* the list invocation i's agent reads and appends to: self.scholarships is
\* assigned a new list in __init__, so it is the agent's own
AgentList_shared(reqs, i) ==
    IF "scholarships" \in DOMAIN reqs[1] THEN reqs[1].scholarships
    ELSE reqs[i].scholarships

AgentList(reqs, i) == reqs[i].scholarships

ConcurrentRequests ==
    { r \in Requests : /\ r.gpa = 350
                       /\ r.heritage \in {"", "Hispanic"}
                       /\ r.year = "Sophomore"
                       /\ r.military }

\* the catalog file every invocation reads
ConcurrentCatalogs ==
    { c \in Catalogs :
          /\ Len(c) = 2
          /\ \A i \in 1..Len(c) :
                 c[i].name = (IF i = 1 THEN "Merit Award"
                              ELSE "Hispanic Scholarship Fund") }

Arrivals ==
    { [data |-> d, clock |-> t, pc |-> "start"] :
          d \in ConcurrentRequests, t \in AgentTimes }

InitConcurrent ==
    /\ call = [op |-> "none"]
    /\ student_profile = BaseProfile
    /\ user_gpa = BaseProfile.gpa
    /\ catalog \in ConcurrentCatalogs
    /\ scholarships = <<>>
    /\ today = 0
    /\ now = 0
    /\ pc = "idle"
    /\ opportunities = <<>>
    /\ file = [exists |-> FALSE]
    /\ db_data = [scholarships |-> <<>>]
    /\ changes = <<>>
    /\ requests \in [1..MaxInvocations -> Arrivals]

\* what the steps of one invocation leave alone
OthersUnchanged ==
    UNCHANGED <<call, student_profile, catalog, scholarships, today,
                user_gpa, now, pc, opportunities, file, db_data, changes>>

\* search_scholarships: the profile is built and the agent constructed
SearchStart ==
    /\ \E i \in 1..MaxInvocations :
           /\ requests[i].pc = "start"
           /\ requests' = [requests EXCEPT ![i] =
                               [data |-> @.data, clock |-> @.clock,
                                pc |-> "load",
                                student_profile |-> BuildProfile(@.data),
                                user_gpa |-> Get(@.data, "gpa", 350),
                                today |-> @.clock,
                                scholarships |-> <<>>]]
    /\ OthersUnchanged

\* agent.research_scholarships(): the database load
SearchLoad ==
    /\ \E i \in 1..MaxInvocations :
           /\ requests[i].pc = "load"
           /\ requests' = [requests EXCEPT
                               ![i].scholarships =
                                   load_scholarships_from_database(
                                       AgentList(requests, i), catalog,
                                       requests[i].student_profile,
                                       requests[i].today,
                                       requests[i].user_gpa),
                               ![i].pc = "static"]
    /\ OthersUnchanged

\* agent.research_scholarships(): the static rule blocks
SearchStatic ==
    /\ \E i \in 1..MaxInvocations :
           /\ requests[i].pc = "static"
           /\ requests' = [requests EXCEPT
                               ![i].scholarships =
                                   add_scholarship(
                                       AgentList(requests, i),
                                       StaticArgs(requests[i].student_profile),
                                       requests[i].today,
                                       requests[i].user_gpa),
                               ![i].pc = "dedup"]
    /\ OthersUnchanged

\* agent.research_scholarships(): the duplicate pass
SearchDedup ==
    /\ \E i \in 1..MaxInvocations :
           /\ requests[i].pc = "dedup"
           /\ requests' = [requests EXCEPT
                               ![i].scholarships =
                                   unique_scholarships(AgentList(requests, i)),
                               ![i].pc = "expiry"]
    /\ OthersUnchanged

\* agent.research_scholarships(): the expiry pass
SearchExpiry ==
    /\ \E i \in 1..MaxInvocations :
           /\ requests[i].pc = "expiry"
           /\ requests' = [requests EXCEPT
                               ![i].scholarships =
                                   NotExpired(AgentList(requests, i),
                                              requests[i].today),
                               ![i].pc = "respond"]
    /\ OthersUnchanged

\* search_scholarships: the sort and the statistics of the response
SearchRespond ==
    /\ \E i \in 1..MaxInvocations :
           /\ requests[i].pc = "respond"
           /\ LET results == sort_by_priority(AgentList(requests, i))
              IN requests' = [requests EXCEPT ![i] =
                                  [pc |-> "done",
                                   response |->
                                       [scholarships |-> results,
                                        stats |-> search_stats(
                                                      results,
                                                      requests[i].user_gpa)]]
                                  @@ @]
    /\ OthersUnchanged

NextConcurrent ==
    \/ SearchStart
    \/ SearchLoad
    \/ SearchStatic
    \/ SearchDedup
    \/ SearchExpiry
    \/ SearchRespond

SpecConcurrent == InitConcurrent /\ [][NextConcurrent]_vars

(***************************************************************************)
(* ScholarshipUpdater: main() constructs the updater on the catalog file,  *)
(* calls run_update, then update_deadline_years, then writes the report.   *)
(* db_data is updater.db.data, changes is updater.changes, file is the     *)
(* catalog file: while save_database has it open for writing it holds the  *)
(* first `written` chunks of the new text.  Another process may construct  *)
(* a ScholarshipDatabase on the same file at any moment; requests holds    *)
(* what it loaded.                                                         *)
(***************************************************************************)
Pad2(n) == IF n < 10 THEN "0" \o ToString(n) ELSE ToString(n)

\* the formats update_deadline_years tries, in order
RolloverFormats == <<"%B %d, %Y", "%b %d, %Y", "%m/%d/%Y">>

\* datetime.strptime(s, fmt), NoDate for ValueError
strptime(s, fmt) ==
    IF fmt = "%B %d, %Y" THEN ParseMonthDayYear(MonthNamesLower, s)
    ELSE IF fmt = "%b %d, %Y" THEN ParseMonthDayYear(MonthAbbrsLower, s)
    ELSE ParseSlash(s)

\* year, month and day of a string that strptime(s, fmt) accepts
DateParts(s, fmt) ==
    IF fmt = "%m/%d/%Y"
    THEN LET w == SplitOn(s, "/")
         IN [y |-> ToInt(w[3]), m |-> ToInt(w[1]), d |-> ToInt(w[2])]
    ELSE LET w == Split(s)
             names == IF fmt = "%B %d, %Y" THEN MonthNamesLower
                      ELSE MonthAbbrsLower
         IN [y |-> ToInt(w[3]), m |-> MonthIndex(names, w[1]),
             d |-> ToInt(SubSeq(w[2], 1, Len(w[2]) - 1))]

\* datetime(y, m, d).strftime(fmt)
strftime(parts, fmt) ==
    IF fmt = "%B %d, %Y"
    THEN MonthNames[parts.m] \o " " \o Pad2(parts.d) \o ", "
             \o ToString(parts.y)
    ELSE IF fmt = "%b %d, %Y"
    THEN MonthAbbrs[parts.m] \o " " \o Pad2(parts.d) \o ", "
             \o ToString(parts.y)
    ELSE IF fmt = "%Y-%m-%d"
    THEN ToString(parts.y) \o "-" \o Pad2(parts.m) \o "-" \o Pad2(parts.d)
    ELSE Pad2(parts.m) \o "/" \o Pad2(parts.d) \o "/" \o ToString(parts.y)

\* the deadline update_deadline_years gives a record, the old one when it
\* leaves the record alone
rolled_deadline(deadline_str, t) ==
    LET parsing == { k \in 1..Len(RolloverFormats) :
                       strptime(deadline_str, RolloverFormats[k]) # NoDate }
    IN IF Lower(deadline_str) \in {"rolling", "varies", "ongoing"}
          \/ parsing = {}
       THEN deadline_str
       ELSE LET k == CHOOSE i \in parsing : \A j \in parsing : i <= j
                fmt == RolloverFormats[k]
                parts == DateParts(deadline_str, fmt)
            IN IF /\ strptime(deadline_str, fmt) < t
                  /\ MakeDate(parts.y + 1, parts.m, parts.d) # NoDate
               THEN strftime([parts EXCEPT !.y = @ + 1], fmt)
               ELSE deadline_str

\* the keys of an updates dict, in insertion order
UpdateKeys(updates) ==
    LET Present(k) == k \in DOMAIN updates
    IN SelectSeq(<<"last_verified", "status", "deadline">>, Present)

\* the entries _update_scholarship appends to self.changes for one record
ChangesOf(scholarship, updates) ==
    LET keys == UpdateKeys(updates)
        Changed(k) == /\ Get(scholarship, k, "") # updates[k]
                      /\ k # "last_verified"
        changed == SelectSeq(keys, Changed)
    IN [i \in 1..Len(changed) |->
            [scholarship |-> scholarship.name, field |-> changed[i],
             old |-> Get(scholarship, changed[i], ""),
             new |-> updates[changed[i]]]]

\* ScholarshipDatabase.update_scholarship on the list of records
update_scholarship(list, scholarship_id, updates, stamp) ==
    LET hits == { i \in 1..Len(list) : list[i].id = scholarship_id }
    IN IF hits = {} THEN list
       ELSE LET i == CHOOSE h \in hits : \A j \in hits : h <= j
            IN [list EXCEPT ![i] =
                    [last_verified |-> stamp] @@ updates @@ @]

\* ScholarshipUpdater._update_scholarship on the updater u = (db, changes)
update_scholarship_tracked(u, scholarship_id, updates, stamp) ==
    LET hits == { i \in 1..Len(u.db) : u.db[i].id = scholarship_id }
    IN IF hits = {} THEN u
       ELSE LET i == CHOOSE h \in hits : \A j \in hits : h <= j
            IN [db |-> update_scholarship(u.db, scholarship_id, updates,
                                          stamp),
                changes |-> u.changes \o ChangesOf(u.db[i], updates)]

\* update_nsbe, update_shpe, update_swe: the record each verifies and the
\* deadline it sets when the page names it
Sites ==
    << [id |-> "nsbe-001", deadline |-> "March 15, 2026"],
       [id |-> "shpe-001", deadline |-> "April 1, 2026"],
       [id |-> "swe-001", deadline |-> "February 15, 2026"] >>

\* what the HTTP request of one update_* gives: no answer or an error
\* status, the page, the page with the deadline text
Outcomes == {"unreachable", "page", "page_with_deadline"}

update_site(u, site, outcome, stamp) ==
    IF outcome = "unreachable" THEN u
    ELSE update_scholarship_tracked(
             u, site.id,
             IF outcome = "page_with_deadline"
             THEN [last_verified |-> stamp, status |-> "active",
                   deadline |-> site.deadline]
             ELSE [last_verified |-> stamp, status |-> "active"],
             stamp)

\* run_update up to the save: the three update_* calls in order
update_sites(u, outcomes, stamp) ==
    update_site(update_site(update_site(u, Sites[1], outcomes[1], stamp),
                            Sites[2], outcomes[2], stamp),
                Sites[3], outcomes[3], stamp)

RECURSIVE roll_from(_, _, _, _)
roll_from(u, i, t, stamp) ==
    IF i > Len(u.db) THEN u
    ELSE LET old == Get(u.db[i], "deadline", "")
             new == rolled_deadline(old, t)
         IN roll_from(IF new = old THEN u
                      ELSE update_scholarship_tracked(
                               u, u.db[i].id, [deadline |-> new], stamp),
                      i + 1, t, stamp)

\* ScholarshipUpdater.update_deadline_years
update_deadline_years(u, t, stamp) == roll_from(u, 1, t, stamp)

\* the changes generate_update_report lists
generate_update_report(log) ==
    [i \in 1..Len(log) |->
        [scholarship |-> log[i].scholarship, field |-> log[i].field,
         old |-> log[i].old, new |-> log[i].new]]

\* Entries of the catalog file the updater starts from.
UpdaterEntries ==
    << [id |-> "nsbe-001", name |-> "NSBE Scholarship",
        status |-> "active", deadline |-> "March 15, 2025",
        last_verified |-> "2025-01-10"],
       [id |-> "swe-001", name |-> "SWE Scholarship",
        status |-> "inactive", deadline |-> "Rolling",
        last_verified |-> "2025-01-10"],
       [id |-> "local-001", name |-> "Local Club Award",
        status |-> "active", deadline |-> "02/15/2025",
        last_verified |-> "2025-01-10"] >>

UpdaterCatalogs ==
    { SubSeq(UpdaterEntries, a, b) : a \in 1..3, b \in 1..3 }

\* the day main() runs
UpdaterDay == [y |-> 2026, m |-> 1, d |-> 15]

CompleteFile(entries) ==
    [exists |-> TRUE, catalog |-> entries, written |-> Chunks(entries)]

InitUpdater ==
    /\ call = [op |-> "none"]
    /\ student_profile = BaseProfile
    /\ user_gpa = BaseProfile.gpa
    /\ scholarships = <<>>
    /\ opportunities = <<>>
    /\ requests = <<>>
    /\ catalog \in UpdaterCatalogs
    /\ file = CompleteFile(catalog)
    /\ db_data = load_database(file)
    /\ changes = <<>>
    /\ today = MakeDate(UpdaterDay.y, UpdaterDay.m, UpdaterDay.d) + 1
    /\ now = today
    /\ pc = "run_update"

\* run_update: the update_* calls, then save_database opens the file for
\* writing when there is a change
RunUpdate ==
    /\ pc = "run_update"
    /\ \E outcomes \in [1..3 -> Outcomes] :
           LET u == update_sites([db |-> db_data.scholarships,
                                  changes |-> changes],
                                 outcomes, strftime(UpdaterDay, "%Y-%m-%d"))
           IN /\ db_data' = [scholarships |-> u.db]
              /\ changes' = u.changes
              /\ IF Len(u.changes) > 0
                 THEN /\ file' = [exists |-> TRUE, catalog |-> u.db,
                                  written |-> 0]
                      /\ pc' = "save_database"
                 ELSE /\ file' = file
                      /\ pc' = "update_deadline_years"
    /\ UNCHANGED <<call, student_profile, catalog, scholarships, today,
                   user_gpa, now, opportunities, requests>>

\* save_database: json.dump writes the next part of the text; the with
\* block closes the file after the last one
SaveDatabaseWrite ==
    /\ pc = "save_database"
    /\ file' = [file EXCEPT !.written = @ + 1]
    /\ pc' = IF file.written + 1 = Chunks(file.catalog)
             THEN "update_deadline_years" ELSE "save_database"
    /\ UNCHANGED <<call, student_profile, catalog, scholarships, today,
                   user_gpa, now, opportunities, requests, db_data, changes>>

\* main: updater.update_deadline_years()
UpdateDeadlineYears ==
    /\ pc = "update_deadline_years"
    /\ LET u == update_deadline_years([db |-> db_data.scholarships,
                                       changes |-> changes],
                                      today, strftime(UpdaterDay, "%Y-%m-%d"))
       IN /\ db_data' = [scholarships |-> u.db]
          /\ changes' = u.changes
    /\ pc' = "report"
    /\ UNCHANGED <<call, student_profile, catalog, scholarships, today,
                   user_gpa, now, opportunities, requests, file>>

\* main: the report is generated and written when changes is not empty
WriteReport ==
    /\ pc = "report"
    /\ call' = IF Len(changes) > 0
               THEN [op |-> "report",
                     report |-> generate_update_report(changes)]
               ELSE [op |-> "no_report"]
    /\ pc' = "done"
    /\ UNCHANGED <<student_profile, catalog, scholarships, today, user_gpa,
                   now, opportunities, requests, file, db_data, changes>>

\* another process: ScholarshipDatabase(path) on the same file
LoadWhileUpdating ==
    /\ Len(requests) = 0
    /\ requests' = << [op |-> "load_database", before |-> catalog,
                       after |-> file.catalog,
                       data |-> load_database(file)] >>
    /\ UNCHANGED <<call, student_profile, catalog, scholarships, today,
                   user_gpa, now, pc, opportunities, file, db_data, changes>>

NextUpdater ==
    \/ RunUpdate
    \/ SaveDatabaseWrite
    \/ UpdateDeadlineYears
    \/ WriteReport
    \/ LoadWhileUpdating

SpecUpdater == InitUpdater /\ [][NextUpdater]_vars

(***************************************************************************)
(* Vocabulary of the properties.                                           *)
(***************************************************************************)
IsDbCall == call.op = "matches_profile"
IsOppCall == call.op = "opp_matches_profile"
CallReqs == Get(call.scholarship, "requirements", <<>>)
ProfLower(k) == Lower(Get(call.profile, k, ""))

\* v is a strict substring or a strict superstring of w
StrictSubOrSuper(v, w) == v # w /\ (StrIn(v, w) \/ StrIn(w, v))

\* the 'Not specified' sentinel of app.py, the empty string or a missing key
UnspecifiedField(k) == ProfLower(k) \in {"", "not specified"}

\* some allowed value is a substring of the profile's major or discipline
MajorOrDiscipline(allowed) ==
    \E i \in 1..Len(allowed) :
        \/ StrIn(Lower(allowed[i]), ProfLower("major"))
        \/ StrIn(Lower(allowed[i]), ProfLower("discipline"))

\* some blank-separated token of the profile heritage is an allowed value
HeritageTokenMatch(allowed) ==
    LET words == Split(ProfLower("heritage"))
    IN \E i \in 1..Len(words), j \in 1..Len(allowed) :
           words[i] = Lower(allowed[j])

\* substring match in either direction against some allowed value
EitherDirection(allowed, v) ==
    \E i \in 1..Len(allowed) :
        StrIn(Lower(allowed[i]), v) \/ StrIn(v, Lower(allowed[i]))

(***************************************************************************)
(* C2: a record with no requirement set matches exactly the profiles whose *)
(* gpa is at least its gpa_min, and a requirement key that is not set is   *)
(* never the check that rejects a profile.                                 *)
(***************************************************************************)
C2_NoRequirementsIffGpa ==
    IsDbCall =>
        /\ DOMAIN CallReqs = {} =>
               (call.result <=>
                    Get(call.profile, "gpa", 0)
                        >= Get(call.scholarship, "gpa_min", 0))
        /\ call.exit \in {"ok", "gpa"} \cup DOMAIN CallReqs

C2_Witness ==
    /\ IsDbCall
    /\ DOMAIN CallReqs = {}
    /\ "gpa_min" \in DOMAIN call.scholarship
    /\ call.profile.gpa = call.scholarship.gpa_min
    /\ call.result = TRUE

(***************************************************************************)
(* C3: with a year requirement, a profile year that is a strict substring  *)
(* or superstring of an allowed value and equals no allowed value up to    *)
(* letter case does not match, in the catalog matcher and in the           *)
(* opportunity matcher.                                                    *)
(***************************************************************************)
YearNearMiss(allowed) ==
    /\ \E i \in 1..Len(allowed) :
           StrictSubOrSuper(ProfLower("year"), Lower(allowed[i]))
    /\ \A i \in 1..Len(allowed) : ProfLower("year") # Lower(allowed[i])

C3_YearSubstringNeverMatches ==
    /\ (IsDbCall /\ "year" \in DOMAIN CallReqs /\ YearNearMiss(CallReqs["year"]))
           => call.result = FALSE
    /\ (IsOppCall /\ Len(call.opp.eligible_years) > 0
                  /\ YearNearMiss(call.opp.eligible_years))
           => call.result = FALSE

C3_Witness ==
    /\ IsDbCall
    /\ "year" \in DOMAIN CallReqs
    /\ Get(call.profile, "year", "") = "High School Senior"
    /\ CallReqs["year"] = <<"Senior">>
    /\ call.exit = "year"

(***************************************************************************)
(* C4: a profile year equal to an allowed value up to letter case passes   *)
(* the year check of both matchers.                                        *)
(***************************************************************************)
YearEqualUpToCase(allowed) ==
    \E i \in 1..Len(allowed) : ProfLower("year") = Lower(allowed[i])

C4_YearCaseInsensitive ==
    /\ (IsDbCall /\ "year" \in DOMAIN CallReqs
                 /\ YearEqualUpToCase(CallReqs["year"]))
           => call.exit # "year"
    /\ (IsOppCall /\ Len(call.opp.eligible_years) > 0
                  /\ YearEqualUpToCase(call.opp.eligible_years))
           => call.exit # "year"

(***************************************************************************)
(* C5: with a major requirement the major check succeeds exactly when some *)
(* allowed value is a substring, up to case, of the profile's major or of  *)
(* its discipline, in both matchers.                                       *)
(***************************************************************************)
C5_MajorOrDiscipline ==
    /\ (IsDbCall /\ "major" \in DOMAIN CallReqs /\ call.exit # "gpa")
           => (call.exit # "major" <=> MajorOrDiscipline(CallReqs["major"]))
    /\ (IsOppCall /\ Len(call.opp.majors) > 0 /\ call.exit \notin {"gpa", "year"})
           => (call.exit # "major" <=> MajorOrDiscipline(call.opp.majors))

(***************************************************************************)
(* C6: a heritage requirement is satisfied only by a whole blank-separated *)
(* token of the profile heritage, never by a term inside a longer word.    *)
(***************************************************************************)
C6_HeritageWholeTokens ==
    (IsDbCall /\ "heritage" \in DOMAIN CallReqs
              /\ ~ HeritageTokenMatch(CallReqs["heritage"]))
        => call.result = FALSE

(***************************************************************************)
(* C7: a profile field that is missing, empty or the unspecified sentinel  *)
(* never satisfies a requirement that lists allowed values, the state      *)
(* requirement in particular.                                              *)
(***************************************************************************)
ListedFields ==
    {"major", "heritage", "university", "gender", "clubs", "year", "state",
     "residency"}

C7_UnspecifiedNeverSatisfies ==
    IsDbCall =>
        \A k \in ListedFields \cap DOMAIN CallReqs :
            UnspecifiedField(k) => call.result = FALSE

(***************************************************************************)
(* C8: with a university requirement the university check succeeds        *)
(* exactly when an allowed value is a substring of the profile university  *)
(* or the profile university is a substring of an allowed value.           *)
(***************************************************************************)
C8_UniversityEitherDirection ==
    (IsDbCall /\ "university" \in DOMAIN CallReqs
              /\ call.exit \notin {"gpa", "major", "heritage"})
        => (call.exit # "university"
                <=> EitherDirection(CallReqs["university"],
                                    ProfLower("university")))

(***************************************************************************)
(* C9: with a citizenship requirement a profile whose residency is         *)
(* "International" in any letter case never matches, and a profile with    *)
(* any other residency is not rejected by the citizenship check.           *)
(***************************************************************************)
C9_CitizenshipExcludesInternational ==
    (IsDbCall /\ "citizenship" \in DOMAIN CallReqs) =>
        IF ProfLower("residency") = "international"
        THEN call.result = FALSE
        ELSE call.exit # "citizenship"

C9_Witness ==
    /\ IsDbCall
    /\ "citizenship" \in DOMAIN CallReqs
    /\ Get(call.profile, "residency", "") = "INTERNATIONAL"
    /\ call.exit = "citizenship"

(***************************************************************************)
(* C1 (as stated): after research_scholarships completes no record of the  *)
(* result set has min_gpa above the profile's GPA, whether it came from    *)
(* the JSON catalog or from a static rule block.                           *)
(***************************************************************************)
C1_NoRecordAboveGpa ==
    pc = "done" =>
        \A i \in 1..Len(scholarships) :
            scholarships[i].min_gpa <= Get(student_profile, "gpa", 0)

(***************************************************************************)
(* C1 (amended): no record that came from the JSON catalog has min_gpa     *)
(* above the profile's GPA - all records are within it right after the     *)
(* database load, and every record of the final result set that is above   *)
(* it is one a static rule block added.                                    *)
(***************************************************************************)
StaticRecords ==
    LET made == add_scholarship(<<>>, StaticArgs(student_profile), today,
                                user_gpa)
    IN { made[i] : i \in 1..Len(made) }

C1_CatalogRecordsWithinGpa ==
    /\ pc = "static" =>
           \A i \in 1..Len(scholarships) :
               scholarships[i].min_gpa <= Get(student_profile, "gpa", 0)
    /\ pc = "done" =>
           \A i \in 1..Len(scholarships) :
               scholarships[i].min_gpa > Get(student_profile, "gpa", 0)
                   => scholarships[i] \in StaticRecords

C1_Witness ==
    /\ pc = "done"
    /\ \E i \in 1..Len(catalog) :
           /\ Get(catalog[i], "status", "") = "active"
           /\ MatchesProfileExit(catalog[i], student_profile) = "gpa"
           /\ \A j \in 1..Len(scholarships) :
                  scholarships[j].name # catalog[i].name
    /\ \E j \in 1..Len(scholarships) :
           scholarships[j].min_gpa > student_profile.gpa

(***************************************************************************)
(* C10: the expiry pass removes a record if and only if it has a concrete  *)
(* deadline date, its raw deadline is not a rolling/ongoing keyword and    *)
(* today's date is strictly after the deadline date; a record whose        *)
(* deadline date is today is retained.                                     *)
(***************************************************************************)
ShouldExpire(s, t) ==
    /\ s.deadline_date # NoDate
    /\ Lower(s.deadline) \notin DeadlineKeywords
    /\ DateOf(t) > DateOf(s.deadline_date)

C10_ExpiredIffPastDeadlineDate ==
    [][ (pc = "expiry" /\ pc' = "done") =>
            \A i \in 1..Len(scholarships) :
                (\A j \in 1..Len(scholarships') :
                     scholarships'[j] # scholarships[i])
                    <=> ShouldExpire(scholarships[i], now) ]_vars

(***************************************************************************)
(* C11: after the deduplication pass no two records of the result set      *)
(* share a name; the record that survives for a name is the first one      *)
(* added with that name, with its data unchanged, and the surviving        *)
(* records keep their relative insertion order.                            *)
(***************************************************************************)
FirstOccurrences(list) ==
    { i \in 1..Len(list) : \A j \in 1..(i - 1) : list[j].name # list[i].name }

\* the k-th smallest index of a set of indices
NthIndex(idx, k) ==
    CHOOSE i \in idx : Cardinality({ j \in idx : j <= i }) = k

C11_DedupFirstWins ==
    call.op = "dedup" =>
        LET before == call.before
            first == FirstOccurrences(before)
        IN /\ \A i, j \in 1..Len(scholarships) :
                  i # j => scholarships[i].name # scholarships[j].name
           /\ Len(scholarships) = Cardinality(first)
           /\ \A k \in 1..Len(scholarships) :
                  scholarships[k] = before[NthIndex(first, k)]

C11_Witness ==
    /\ call.op = "dedup"
    /\ Len(call.before) = 3
    /\ Len(scholarships) = 2
    /\ call.before[1].name = call.before[3].name
    /\ call.before[1] # call.before[3]

(***************************************************************************)
(* C12: when the JSON catalog and a static rule block both contribute a    *)
(* record with the same name, the final result set (after the duplicate    *)
(* and the expiry pass) holds exactly one record with that name whenever   *)
(* at least one of the two records is not expired.                         *)
(***************************************************************************)
CatalogRecords ==
    load_scholarships_from_database(<<>>, catalog, student_profile, today,
                                    user_gpa)

StaticRecordList ==
    add_scholarship(<<>>, StaticArgs(student_profile), today, user_gpa)

CountNamed(list, name) ==
    Cardinality({ j \in 1..Len(list) : list[j].name = name })

C12_SharedNameKeptOnce ==
    pc = "done" =>
        \A i \in 1..Len(CatalogRecords), k \in 1..Len(StaticRecordList) :
            ( /\ CatalogRecords[i].name = StaticRecordList[k].name
              /\ \/ ~ is_expired(CatalogRecords[i], now)
                 \/ ~ is_expired(StaticRecordList[k], now) )
                => CountNamed(scholarships, CatalogRecords[i].name) = 1

(***************************************************************************)
(* C13: for every profile GPA and every record, calculate_priority_score   *)
(* returns the sum of four table values - award by the average of          *)
(* amount_min and amount_max (>= 10000: 40, >= 5000: 30, >= 2000: 20,      *)
(* else 10), urgency by days (<= 30: 30, <= 60: 25, <= 90: 20, <= 180: 15, *)
(* else, the 999 sentinel included, 10), GPA fit (20 / 15 / 5) and         *)
(* competitiveness (Low 10, Medium 7, High 5, Very High 3, unknown 5) -    *)
(* and the result lies in [0, 100].                                        *)
(***************************************************************************)
\* the first value whose threshold x reaches, else dflt; rows are
\* <<threshold, value>> in the order the claim lists them
AtLeastTable(x, rows, dflt) ==
    IF \E r \in 1..Len(rows) : x >= rows[r][1]
    THEN rows[CHOOSE r \in 1..Len(rows) :
                  /\ x >= rows[r][1]
                  /\ \A q \in 1..(r - 1) : x < rows[q][1]][2]
    ELSE dflt

AtMostTable(x, rows, dflt) ==
    IF \E r \in 1..Len(rows) : x <= rows[r][1]
    THEN rows[CHOOSE r \in 1..Len(rows) :
                  /\ x <= rows[r][1]
                  /\ \A q \in 1..(r - 1) : x > rows[q][1]][2]
    ELSE dflt

\* the average is compared through its double
AwardPoints(s) ==
    AtLeastTable(s.amount_min + s.amount_max,
                 << <<20000, 40>>, <<10000, 30>>, <<4000, 20>> >>, 10)

UrgencyPoints(s) ==
    AtMostTable(s.days_until_deadline,
                << <<30, 30>>, <<60, 25>>, <<90, 20>>, <<180, 15>> >>, 10)

GpaFitPoints(gpa, s) ==
    AtLeastTable(gpa, << <<s.recommended_gpa, 20>>, <<s.min_gpa, 15>> >>, 5)

CompetitivenessPoints(s) ==
    LET table == [Low |-> 10, Medium |-> 7, High |-> 5]
    IN IF s.competitiveness \in DOMAIN table THEN table[s.competitiveness]
       ELSE IF s.competitiveness = "Very High" THEN 3
       ELSE 5

C13_ScoreIsTableSum ==
    call.op = "calculate_priority_score" =>
        /\ call.result = AwardPoints(call.scholarship)
                         + UrgencyPoints(call.scholarship)
                         + GpaFitPoints(user_gpa, call.scholarship)
                         + CompetitivenessPoints(call.scholarship)
        /\ call.result >= 0
        /\ call.result <= 100

C13_Witness ==
    /\ call.op = "calculate_priority_score"
    /\ call.scholarship.days_until_deadline = 999
    /\ call.scholarship.competitiveness = "Extreme"
    /\ user_gpa < call.scholarship.min_gpa
    /\ call.scholarship.amount_min + call.scholarship.amount_max = 3999
    /\ call.result = 30

(***************************************************************************)
(* C14: for every profile and every research opportunity,                  *)
(* calculate_priority sets priority_score to a value in [0, 100] in which  *)
(* the stipend component is at most 40, the GPA component at most 30, the  *)
(* housing/travel component at most 20 and the competitiveness component   *)
(* at most 10, an unknown competitiveness contributing 5.                  *)
(***************************************************************************)
C14_OppScoreWithinWeights ==
    call.op = "calculate_priority" =>
        /\ call.result >= 0
        /\ call.result <= 10000
        /\ OppStipendScore(call.opp) <= 4000
        /\ OppGpaScore(call.opp, student_profile) <= 3000
        /\ OppBenefitScore(call.opp) <= 2000
        /\ OppCompScore(call.opp) <= 1000
        /\ call.opp.competitiveness
               \notin {"Low", "Medium", "High", "Very High"}
               => OppCompScore(call.opp) = 500

(***************************************************************************)
(* C15: deadline normalization never raises - for every input string, the  *)
(* empty string, the keywords and malformed text included, parse_deadline  *)
(* returns a date or null, and add_scholarship sets days_until_deadline to *)
(* (deadline date minus today) in days when the date is non-null and to    *)
(* the sentinel 999 otherwise.                                             *)
(***************************************************************************)
Added == scholarships[Len(scholarships)]

IsMidnight(t) == t > 0 /\ t % TicksPerDay = 0

C15_DeadlineNeverRaises ==
    call.op = "add_scholarship" =>
        /\ Len(scholarships) = 1
        /\ Added.deadline = call.deadline
        /\ Added.deadline_date = NoDate \/ IsMidnight(Added.deadline_date)
        /\ Added.deadline_date = NoDate => Added.days_until_deadline = 999
        /\ Added.deadline_date # NoDate =>
               /\ Added.days_until_deadline * TicksPerDay
                      <= Added.deadline_date - today
               /\ (Added.days_until_deadline + 1) * TicksPerDay
                      > Added.deadline_date - today
        /\ (call.deadline = "" \/ Lower(call.deadline) \in DeadlineKeywords)
               => Added.deadline_date = NoDate

C15_Witness ==
    /\ call.op = "add_scholarship"
    /\ call.deadline = "soon!!"
    /\ Added.deadline_date = NoDate
    /\ Added.days_until_deadline = 999

(***************************************************************************)
(* C16: for every deadline string that matches none of the exact date      *)
(* formats but contains a 4-digit year token Y and a month name M,         *)
(* parse_deadline returns day 1 of month M in year Y, for every year and   *)
(* every one of the twelve months.                                         *)
(***************************************************************************)
MatchesExactFormat(d) ==
    \/ ParseMonthDayYear(MonthNamesLower, d) # NoDate
    \/ ParseMonthDayYear(MonthAbbrsLower, d) # NoDate
    \/ ParseSlash(d) # NoDate
    \/ ParseIso(d) # NoDate
    \/ ParseMonthYear(MonthNamesLower, d) # NoDate
    \/ ParseMonthYear(MonthAbbrsLower, d) # NoDate

YearTokens == {"2025", "2026", "2027"}

C16_FallbackEveryYearAndMonth ==
    call.op = "add_scholarship" =>
        \A y \in YearTokens, m \in 1..12 :
            ( /\ ~ MatchesExactFormat(call.deadline)
              /\ StrIn(y, call.deadline)
              /\ StrIn(MonthNames[m], call.deadline) )
                => Added.deadline_date = MakeDate(ToInt(y), m, 1)

(***************************************************************************)
(* C17: in the list sort_by_deadline returns, every record with a concrete *)
(* deadline date precedes every record with no concrete deadline, however  *)
(* far in the future the concrete deadline lies; and only records without  *)
(* a concrete deadline are presented as "TBD".                             *)
(***************************************************************************)
C17_ConcreteDeadlinesFirst ==
    call.op = "sort_by_deadline" =>
        /\ \A i, j \in 1..Len(call.result) :
               ( /\ call.result[i].deadline_date # NoDate
                 /\ call.result[j].deadline_date = NoDate ) => i < j
        /\ \A i \in 1..Len(call.result) :
               Presented(call.result[i]) = "TBD"
                   => call.result[i].deadline_date = NoDate

(***************************************************************************)
(* C19: sort_by_priority returns the result set in non-increasing          *)
(* priority_score, sort_by_amount in non-increasing amount_max and         *)
(* sort_by_deadline in non-decreasing days_until_deadline; each returns a  *)
(* permutation of the result set in which records with equal keys keep     *)
(* their prior relative order, the descending orders included.             *)
(***************************************************************************)
\* out is list rearranged by a permutation p that puts the keys in order
\* and keeps records of equal key in their order in list
IsStableOrderingOf(out, list, key, descending) ==
    /\ Len(out) = Len(list)
    /\ \E p \in [1..Len(list) -> 1..Len(list)] :
           /\ \A i, j \in 1..Len(list) : i # j => p[i] # p[j]
           /\ \A i \in 1..Len(list) : out[i] = list[p[i]]
           /\ \A i, j \in 1..Len(list) :
                  i < j =>
                      /\ IF descending THEN out[i][key] >= out[j][key]
                         ELSE out[i][key] <= out[j][key]
                      /\ out[i][key] = out[j][key] => p[i] < p[j]

C19_SortsAreStableOrderings ==
    /\ call.op = "sort_by_priority" =>
           IsStableOrderingOf(call.result, scholarships, "priority_score",
                              TRUE)
    /\ call.op = "sort_by_amount" =>
           IsStableOrderingOf(call.result, scholarships, "amount_max", TRUE)
    /\ call.op = "sort_by_deadline" =>
           IsStableOrderingOf(call.result, scholarships,
                              "days_until_deadline", FALSE)

C19_Witness ==
    /\ call.op = "sort_by_amount"
    /\ Len(call.result) = 3
    /\ call.result # scholarships
    /\ call.result[1].amount_max = call.result[2].amount_max
    /\ call.result[1].name # call.result[2].name
    /\ call.result[2].amount_max > call.result[3].amount_max

(***************************************************************************)
(* C18: a record whose raw deadline is "Rolling" (or another non-date      *)
(* keyword) always has days_until_deadline equal to the sentinel 999, is   *)
(* never counted among the urgent (within 30 days) records, never has      *)
(* urgency level "expired", and is never removed by the expiry pass,       *)
(* whatever today's date is.                                               *)
(***************************************************************************)
HasKeywordDeadline(s) == Lower(s.deadline) \in DeadlineKeywords

KeywordRecords(list) == SelectSeq(list, HasKeywordDeadline)

C18_KeywordDeadlineNeverExpires ==
    /\ \A i \in 1..Len(scholarships) :
           HasKeywordDeadline(scholarships[i]) =>
               /\ scholarships[i].days_until_deadline = 999
               /\ \A k \in 1..Len(get_urgent_deadlines(scholarships, 30)) :
                      get_urgent_deadlines(scholarships, 30)[k]
                          # scholarships[i]
               /\ get_urgency_level(scholarships[i]) # "expired"
    /\ call.op = "expiry" =>
           KeywordRecords(scholarships) = KeywordRecords(call.before)

C18_Witness ==
    /\ call.op = "expiry"
    /\ now = MakeDate(2031, 1, 1)
    /\ Len(call.before) = 3
    /\ Len(scholarships) = 1
    /\ scholarships[1].deadline = "Rolling"

(***************************************************************************)
(* C20: the aggregate statistics of a result set are its total count, the  *)
(* count of records with min_gpa <= profile GPA, the count with            *)
(* 0 < days_until_deadline <= 30, the sum over every record of             *)
(* (amount_min + amount_max) / 2 and the mean priority_score over every    *)
(* record; the search endpoint and generate_summary_stats report the same  *)
(* values for the same result set.                                         *)
(***************************************************************************)
CountWhere(list, Test(_)) == Cardinality({ i \in 1..Len(list) : Test(list[i]) })

SameMean(a, b) == a[1] * b[2] = b[1] * a[2]

C20_AggregatesAgree ==
    call.op = "stats" =>
        LET GpaEligible(s) == s.min_gpa <= student_profile.gpa
            Urgent(s) == 0 < s.days_until_deadline /\ s.days_until_deadline <= 30
            total == Len(scholarships)
            eligible == CountWhere(scholarships, GpaEligible)
            urgent == CountWhere(scholarships, Urgent)
            award == FormatDollars(SumTwiceAverage(scholarships))
            mean == Mean(scholarships)
        IN /\ call.search.total_scholarships = total
           /\ call.search.gpa_eligible = eligible
           /\ call.search.urgent_deadlines_30_days = urgent
           /\ call.search.total_potential_award = award
           /\ SameMean(call.search.average_priority, mean)
           /\ call.summary.total_scholarships = total
           /\ call.summary.gpa_eligible = eligible
           /\ call.summary.urgent_deadlines_30_days = urgent
           /\ call.summary.total_potential_award = award
           /\ SameMean(call.summary.avg_priority_score, mean)

(***************************************************************************)
(* C30: no record that survives the expiry pass is labelled expired - for  *)
(* every record of the final result set of research_scholarships,          *)
(* get_urgency_level is never "expired" and days_until_deadline is at      *)
(* least 1 whenever the record has a concrete deadline date.               *)
(***************************************************************************)
C30_SurvivorsNotLabelledExpired ==
    pc = "done" =>
        \A i \in 1..Len(scholarships) :
            /\ get_urgency_level(scholarships[i]) # "expired"
            /\ scholarships[i].deadline_date # NoDate
                   => scholarships[i].days_until_deadline >= 1

(***************************************************************************)
(* C22: scoring is deterministic and free of side effects - for the same   *)
(* profile GPA and the same record fields (amounts, days_until_deadline,   *)
(* min and recommended GPA, competitiveness) calculate_priority_score      *)
(* returns the same value on every call and changes no field of the record *)
(* or of the agent; calling ResearchOpportunity.calculate_priority twice   *)
(* with the same profile leaves priority_score at its value after the      *)
(* first call.                                                             *)
(***************************************************************************)
SameScoreFields(a, b) ==
    /\ a.amount_min = b.amount_min
    /\ a.amount_max = b.amount_max
    /\ a.days_until_deadline = b.days_until_deadline
    /\ a.min_gpa = b.min_gpa
    /\ a.recommended_gpa = b.recommended_gpa
    /\ a.competitiveness = b.competitiveness

HasDate(s) == s.deadline_date # NoDate

WantsReminder(s) == HasDate(s) /\ s.days_until_deadline > 30

CountEvents(events, kind, name, date) ==
    Cardinality({ e \in 1..Len(events) :
                      /\ events[e].kind = kind
                      /\ events[e].name = name
                      /\ events[e].date = date })

C25_CalendarEvents ==
    call.op = "calendar" =>
        /\ Len(call.events)
               = CountWhere(scholarships, HasDate)
                 + CountWhere(scholarships, WantsReminder)
        /\ \A i \in 1..Len(scholarships) :
               LET s == scholarships[i]
                   SameDeadline(r) ==
                       /\ HasDate(r)
                       /\ r.name = s.name
                       /\ r.deadline_date = s.deadline_date
                   SameReminder(r) == SameDeadline(r) /\ WantsReminder(r)
               IN HasDate(s) =>
                      /\ CountEvents(call.events, "DEADLINE", s.name,
                                     DateOf(s.deadline_date))
                             = CountWhere(scholarships, SameDeadline)
                      /\ CountEvents(call.events, "REMINDER", s.name,
                                     DateOf(s.deadline_date) - 30)
                             = CountWhere(scholarships, SameReminder)

(***************************************************************************)
(* C21: when the catalog is empty or cannot be loaded (missing file or     *)
(* malformed JSON) load_database yields an empty catalog instead of        *)
(* raising, get_scholarships_for_profile returns an empty list, and the    *)
(* statistics over an empty result set are all zero (count 0, sum 0, mean  *)
(* priority 0) with no division error.                                     *)
(***************************************************************************)
EmptyOrUnloadable(f) ==
    \/ ~ f.exists
    \/ ~ IsCompleteJson(f)
    \/ Len(f.catalog) = 0

AllZero(stats, mean) ==
    /\ stats.total_scholarships = 0
    /\ stats.gpa_eligible = 0
    /\ stats.urgent_deadlines_30_days = 0
    /\ stats.total_potential_award = 0
    /\ mean[1] = 0
    /\ mean[2] # 0

C21_EmptyCatalogDegrades ==
    /\ (call.op = "load_database" /\ EmptyOrUnloadable(call.file)) =>
           /\ call.data = EmptyDatabase
           /\ call.matched = <<>>
    /\ (call.op = "stats" /\ Len(scholarships) = 0) =>
           /\ AllZero(call.search, call.search.average_priority)
           /\ AllZero(call.summary, call.summary.avg_priority_score)

C21_Witness ==
    /\ call.op = "load_database"
    /\ call.file.exists
    /\ Len(call.file.catalog) = 1
    /\ call.file.written = 2
    /\ call.data = EmptyDatabase
    /\ call.matched = <<>>

(***************************************************************************)
(* C27: research_scholarships is idempotent on one agent: with the         *)
(* profile, the catalog and the clock unchanged, after every further call  *)
(* the agent's list equals the list after the first call (same records,    *)
(* same order, same scores).                                               *)
(***************************************************************************)
C27_ResearchIsIdempotent ==
    call.op = "research_scholarships" => scholarships = call.first

C27_Witness ==
    /\ call.op = "research_scholarships"
    /\ call.calls = 2
    /\ Len(scholarships) >= 2
    /\ \E j \in 1..Len(scholarships) : scholarships[j].name = "Merit Award"
    /\ \E i \in 1..Len(catalog) :
           /\ catalog[i].name = "Hispanic Scholarship Fund"
           /\ matches_profile(catalog[i], student_profile)
    /\ scholarships = call.first

(***************************************************************************)
(* C28: research_opportunities returns the same list on every call on one  *)
(* agent: each matching opportunity exactly once, in non-increasing order  *)
(* of priority_score, however many calls came before.                      *)
(***************************************************************************)
OnceEach(list) ==
    \A i, j \in 1..Len(list) : list[i].name = list[j].name => i = j

NonIncreasing(list) ==
    \A i \in 1..Len(list) - 1 :
        list[i].priority_score >= list[i + 1].priority_score

C28_OpportunitiesSameOnEveryCall ==
    call.op = "research_opportunities" =>
        /\ call.result = call.first
        /\ OnceEach(call.result)
        /\ NonIncreasing(call.result)

(***************************************************************************)
(* C26: after load_scholarships_from_database every active catalog entry   *)
(* that matches the profile has a record in the agent's list, whichever    *)
(* requirement fields it carries, a citizenship flag included; a failure   *)
(* on one entry does not drop the matching entries after it.               *)
(***************************************************************************)
C26_EveryMatchingEntryIsAdded ==
    call.op = "load_scholarships_from_database" =>
        \A i \in 1..Len(catalog) :
            (/\ Get(catalog[i], "status", "") = "active"
             /\ matches_profile(catalog[i], student_profile)) =>
                \E j \in 1..Len(scholarships) :
                    scholarships[j].name = catalog[i].name

(***************************************************************************)
(* C23: searches that each construct their own agent and interleave in any *)
(* order over the same unchanged catalog each produce the result set, the  *)
(* scores and the statistics they produce when run alone; no invocation    *)
(* observes or changes another invocation's records, scores or profile.    *)
(***************************************************************************)
AloneProfile(r) == BuildProfile(r.data)

AloneGpa(r) == Get(r.data, "gpa", 350)

AloneLoaded(r) ==
    load_scholarships_from_database(<<>>, catalog, AloneProfile(r), r.clock,
                                    AloneGpa(r))

AloneAdded(r) ==
    add_scholarship(AloneLoaded(r), StaticArgs(AloneProfile(r)), r.clock,
                    AloneGpa(r))

AloneResults(r) ==
    sort_by_priority(research_scholarships(<<>>, catalog, AloneProfile(r),
                                           r.clock, AloneGpa(r), r.clock))

AsAlone(r) ==
    /\ r.pc # "start" =>
           /\ r.student_profile = AloneProfile(r)
           /\ r.user_gpa = AloneGpa(r)
    /\ r.pc = "load" => r.scholarships = <<>>
    /\ r.pc = "static" => r.scholarships = AloneLoaded(r)
    /\ r.pc = "dedup" => r.scholarships = AloneAdded(r)
    /\ r.pc = "done" =>
           /\ r.response.scholarships = AloneResults(r)
           /\ r.response.stats = search_stats(AloneResults(r), AloneGpa(r))

C23_InterleavedSearchesAreIsolated ==
    \A i \in DOMAIN requests : AsAlone(requests[i])

C23_Witness ==
    \E i, j \in DOMAIN requests :
        /\ requests[i].pc = "dedup"
        /\ requests[j].pc = "done"
        /\ requests[i].data # requests[j].data
        /\ Len(requests[i].scholarships)
               > Len(requests[j].response.scholarships)
        /\ Len(requests[j].response.scholarships) >= 2
        /\ AsAlone(requests[j])

(***************************************************************************)
(* C24: a load_database that interleaves with a save_database of the same  *)
(* file observes the complete catalog as it was before the save or the     *)
(* complete catalog after it, never a truncated, partial or silently empty *)
(* one.                                                                    *)
(***************************************************************************)
C24_LoadSeesBeforeOrAfter ==
    \A k \in 1..Len(requests) :
        requests[k].data.scholarships
            \in {requests[k].before, requests[k].after}

(***************************************************************************)
(* C29: when main's sequence has finished, every change in the changes log *)
(* and in the update report is in the catalog file: the file's record of   *)
(* that scholarship holds the new value of the field.                      *)
(***************************************************************************)
InCatalogFile(change) ==
    /\ IsCompleteJson(file)
    /\ \E i \in 1..Len(file.catalog) :
           /\ file.catalog[i].name = change.scholarship
           /\ file.catalog[i][change.field] = change.new

C29_ReportedChangesAreSaved ==
    pc = "done" =>
        /\ \A k \in 1..Len(changes) : InCatalogFile(changes[k])
        /\ call.op = "report" =>
               \A k \in 1..Len(call.report) : InCatalogFile(call.report[k])

====
